---- MODULE Spec2Model ----
(***************************************************************************)
(* Star Citizen playtime tracker: the monitor loop (src/src/monitor.rs),   *)
(* the session store it persists through (src/src/storage.rs) and the      *)
(* dashboard's leaderboard sync jobs (src/src/bin/dashboard.rs).           *)
(*                                                                         *)
(* Time is counted in clock units, UnitsPerSecond of them to a second, so  *)
(* that chrono's num_seconds() truncation is part of the model.  An        *)
(* Option<T> is a set with at most one element: {} is None, {x} is Some(x).*)
(* A file is a record [kind, data]: absent, valid (data is what serde      *)
(* reads back) or corrupt (present, but it does not parse).                *)
(***************************************************************************)
EXTENDS Integers, Sequences, FiniteSets, TLC

-----------------------------------------------------------------------------
(* Bounds of the model *)

MaxTicks == 4
MaxRuns == 2
UnitsPerSecond == 2
MaxMinSession == 1
MaxJobs == 3
MaxClients == 2
MaxSmall == 3
MaxTotal == 2
MaxNames == 27
MaxStride == 2
MaxFaults == 1
MaxRequests == 2
MaxPosts == 2
MaxStoreCalls == 4
MaxHistory == 3
MaxExport == 2
MaxPublishes == 3
MaxFrames == 2
MaxRead == 2
MaxReadCalls == 2
MaxAppTicks == 3
MaxStarts == 3
PartsPerDay == 2

\* The configured poll interval (settings.poll_seconds), in seconds.
PollSeconds == 30

(* Program constants *)

SecondsPerMinute == 60

\* compute_analytics: the trailing windows reach back 6 and 29 days from
\* today, and the lists are cut at 5, 20, 14 and 8 items.
Last7Back == 6
Last30Back == 29
TopDaysCap == 5
RecentSessionsCap == 20
RecentDailyCap == 14
RecentWeeklyCap == 8

PollUnits == PollSeconds * UnitsPerSecond
MinuteUnits == SecondsPerMinute * UnitsPerSecond

\* The time from the end of one run to the first tick of the next: a poll
\* interval, or one clock unit more (not a whole number of seconds).
RestartGaps == {PollUnits, PollUnits + 1}

\* min_session_minutes is a u64 handed to Monitor::new.
MinSessionChoices == 0..MaxMinSession

-----------------------------------------------------------------------------
VARIABLES
    pc,                   \* where Monitor::run is
    stop,                 \* the AtomicBool handed to run
    active,               \* run's local `active`: Option<ActiveSession>
    session,              \* run's local `session` (line 116, line 129, line 66)
    finCtx,               \* who called finalize_session: "startup" or "loop"
    saved,                \* finalize_session's Ok value: Option<Session>
    now,                  \* run's local `now`
    min_session_minutes,  \* Monitor.min_session_minutes
    activeFile,           \* active_session.json
    sessionsFile,         \* sessions.json
    snapshot,             \* the MonitorSnapshot behind the mutex
    clock,                \* Local::now()
    \* history variables
    runs,                 \* Monitor::run calls so far
    nticks,               \* poll ticks admitted so far, over all runs
    ticks,                \* this run's poll ticks: [t, running]
    appended,             \* the Sessions this run appended
    loaded,               \* what load_active returned at this run's startup
    startupProbe,         \* "none", "running", "recorded", "discarded"
    failedAt,             \* the position at which run returned Err
    probesAfterStop,      \* poll ticks probed since the stop flag was set
    histAtStop,           \* sessions.json when the stop flag was observed
    tickHist,             \* sessions.json when the current tick probed
    branch,               \* the branch the last poll tick took
    origin                \* the first true tick of the interval a stop left open

\* dashboard.rs: the fields of PlaytimeApp that the leaderboard sync uses, and
\* the threads and channels it creates.
VARIABLES
    constructed,              \* PlaytimeApp::new has returned
    settings,                 \* PlaytimeApp.settings (the leaderboard fields)
    analytics,                \* PlaytimeApp.analytics: Option<total, in seconds>
    leaderboard_client,       \* Option<LeaderboardClient>, named by its build number
    leaderboard_entries,      \* the list shown: empty, or the client it was fetched with
    leaderboard_rx,           \* Option<Receiver>, named by the job of its channel
    leaderboard_inflight,
    last_leaderboard_attempt, \* Option<Instant>
    last_leaderboard_success, \* Option<Instant>, tagged with the client of the job
    threads,                  \* the sync threads spawned and not yet finished
    mailbox,                  \* what has been sent on channels whose receiver lives
    nextJob,                  \* jobs spawned so far, plus one
    nextClient                \* clients built so far, plus one

\* leaderboard.rs and bin/leaderboard_server.rs: the Local client's file, the
\* LeaderboardService's list and file, its requests in progress, and the
\* history of what has been submitted.
VARIABLES
    mode,         \* which store the submissions of this behaviour go to
    pattern,      \* the totals of a long run of submissions
    nsub,         \* submissions issued so far
    faults,       \* I/O failures so far
    sent,         \* the submissions of a long run that returned Ok, in order
    boardFile,    \* leaderboard.json of the Local client
    lastCall,     \* the last Local submit_total_minutes call and its outcome
    svcEntries,   \* LeaderboardState.entries, behind the RwLock
    svcFile,      \* the file at LeaderboardState.path
    req,          \* the submit_handler calls in progress, by connection
    response      \* the last response submit_handler gave

\* leaderboard.rs: the construction of a client and the Remote variant.
VARIABLES
    cfg,          \* what LeaderboardClient::auto was given and found around it
    lclient,      \* the LeaderboardClient it returned
    delivered,    \* the posts the endpoints have accepted, in order
    lastSubmit,   \* the last Remote submit_total_minutes call and its outcome
    nposts        \* Remote submit_total_minutes calls so far

\* storage.rs: the SessionStore called directly, its files as the JSON text
\* they hold.
VARIABLES
    storeMode,      \* which file the calls of this behaviour go to
    sessions_file,  \* SessionStore.sessions_file
    active_file,    \* SessionStore.active_file
    recorded,       \* the Sessions whose append_session returned Ok, in order
    marker,         \* what the last save_active or clear_active left, when known
    lastStore,      \* the last SessionStore call and what it returned
    nstore          \* SessionStore calls so far

\* storage.rs: compute_analytics and export_csv called directly.
VARIABLES
    computed,       \* the last compute_analytics call: its input and its result
    exported        \* the last export_csv call: its input, the file and its result

\* monitor.rs and dashboard.rs: the mutex around the MonitorSnapshot.
VARIABLES
    holder,         \* who holds the mutex: "none", "worker" or "reader"
    worker,         \* where the monitor worker is, and its publishes so far
    reader,         \* where the dashboard's update is, its copy, its frames so far
    guarded         \* the MonitorSnapshot behind the mutex

\* dashboard.rs and leaderboard_server.rs: the consumers of the stored lists.
VARIABLES
    dash,           \* PlaytimeApp: sessions, analytics, leaderboard_entries, status_message
    svc,            \* the leaderboard service: whether it is up, its list, its stderr
    lastRead        \* the last read of a stored list: by whom, of what, and how it went

\* dashboard.rs: the monitor workers PlaytimeApp spawns and joins.  A worker
\* and the AtomicBool it was spawned with are named by the same number.
VARIABLES
    dpc,            \* where the dashboard thread is: [at, then]
    stop_flag,      \* PlaytimeApp.stop_flag: the AtomicBool it points to
    flags,          \* the value of every AtomicBool created so far
    monitor_handle, \* PlaytimeApp.monitor_handle: Option<JoinHandle>
    alive,          \* the workers whose thread has not finished
    inStore,        \* the workers that are inside a SessionStore file operation
    observed        \* the workers that have read their stop flag as true

\* history variables of the dashboard
VARIABLES
    loaded_total,   \* the total of the history at PlaytimeApp's last successful load
    dropped         \* the start of the interval tracked when reset_active cleared the marker

-----------------------------------------------------------------------------
(* storage.rs: the data types and the pure helpers *)

None == {}
Some(x) == {x}
Unwrap(o) == CHOOSE x \in o : TRUE

\* sessions.json holds a list of Sessions, active_session.json one ActiveSession.
AbsentSessions == [kind |-> "absent", data |-> <<>>]
CorruptSessions == [kind |-> "corrupt", data |-> <<>>]
ValidSessions(list) == [kind |-> "valid", data |-> list]

AbsentActive == [kind |-> "absent", data |-> {}]
CorruptActive == [kind |-> "corrupt", data |-> {}]
ValidActive(a) == [kind |-> "valid", data |-> {a}]

\* chrono::Duration::num_seconds: whole seconds, truncated toward zero.
num_seconds(d) == IF d >= 0 THEN d \div UnitsPerSecond ELSE -((-d) \div UnitsPerSecond)

Max0(n) == IF n > 0 THEN n ELSE 0

\* Session::new.  duration_minutes is num_seconds().max(0) / 60.0; the model
\* keeps its numerator, the whole seconds.  The random uuid is not modelled.
Session_new_ending_now(start, end) ==
    [start |-> start, end |-> clock, duration_seconds |-> Max0(num_seconds(clock - start))]

Session_new(start, end) ==
    [start |-> start, end |-> end, duration_seconds |-> Max0(num_seconds(end - start))]

ActiveSession_new(start) == [start |-> start, last_seen |-> start]

\* monitor.rs line 107: session.last_seen = now.
HeartbeatRestart(a, t) == [start |-> t, last_seen |-> t]

Heartbeat(a, t) == [a EXCEPT !.last_seen = t]

\* active_session_minutes, in whole seconds (minutes = seconds / 60.0).
active_session_seconds(a) == Max0(num_seconds(a.last_seen - a.start))

\* finalize_session's test `minutes < min_session_minutes as f64`.
TooShortLe(a, min) == active_session_seconds(a) <= min * SecondsPerMinute

TooShort(a, min) == active_session_seconds(a) < min * SecondsPerMinute

\* sort_by_key(|s| s.start) is a stable sort.
RECURSIVE InsertByStart(_, _)
InsertByStart(sorted, x) ==
    IF sorted = <<>> THEN <<x>>
    ELSE IF sorted[Len(sorted)].start <= x.start THEN Append(sorted, x)
    ELSE Append(InsertByStart(SubSeq(sorted, 1, Len(sorted) - 1), x), sorted[Len(sorted)])

RECURSIVE sort_by_start(_)
sort_by_start(s) ==
    IF s = <<>> THEN <<>>
    ELSE InsertByStart(sort_by_start(SubSeq(s, 1, Len(s) - 1)), s[Len(s)])

\* SessionStore::load_sessions: Ok(vec![]) when the file is absent, Err when
\* it cannot be read or parsed.
load_sessions(file, readErr) ==
    IF file.kind = "absent" THEN [ok |-> TRUE, val |-> <<>>]
    ELSE IF readErr \/ file.kind = "corrupt" THEN [ok |-> FALSE, val |-> <<>>]
    ELSE [ok |-> TRUE, val |-> file.data]

\* SessionStore::save_sessions: the payload written.
save_sessions_payload(sessions) == ValidSessions(sort_by_start(sessions))

\* SessionStore::load_active.
load_active(file, readErr) ==
    IF file.kind = "absent" THEN [ok |-> TRUE, val |-> None]
    ELSE IF readErr \/ file.kind = "corrupt" THEN [ok |-> FALSE, val |-> None]
    ELSE [ok |-> TRUE, val |-> file.data]

\* SessionStore::save_active: the payload written.
save_active_payload_stale(a) == ValidActive(ActiveSession_new(a.start))

save_active_payload(a) == ValidActive(a)

clear_active_keeps_file(file, removeErr) == [ok |-> TRUE, file |-> file]

\* SessionStore::clear_active: nothing to do when the file does not exist.
clear_active(file, removeErr) ==
    IF file.kind = "absent" THEN [ok |-> TRUE, file |-> file]
    ELSE IF removeErr THEN [ok |-> FALSE, file |-> file]
    ELSE [ok |-> TRUE, file |-> AbsentActive]

\* What a failed fs::write can leave behind: the old content (the file could
\* not be opened) or a truncated one.
AfterFailedWrite(file, corrupt) == {file, corrupt}

-----------------------------------------------------------------------------
(* monitor.rs: Monitor::run *)

monitorVars == <<pc, stop, active, session, finCtx, saved, now, min_session_minutes,
                 activeFile, sessionsFile, snapshot, clock>>
historyVars == <<runs, nticks, ticks, appended, loaded, startupProbe, failedAt,
                 probesAfterStop, histAtStop, tickHist, branch, origin>>
monitorVars_but_pc == <<stop, active, session, finCtx, saved, now, min_session_minutes,
                        activeFile, sessionsFile, snapshot, clock>>
syncVars == <<constructed, settings, analytics, leaderboard_client, leaderboard_entries,
              leaderboard_rx, leaderboard_inflight, last_leaderboard_attempt,
              last_leaderboard_success, threads, mailbox, nextJob, nextClient>>
boardVars == <<mode, pattern, nsub, faults, sent, boardFile, lastCall, svcEntries,
               svcFile, req, response>>
clientVars == <<cfg, lclient, delivered, lastSubmit, nposts>>
storeVars == <<storeMode, sessions_file, active_file, recorded, marker, lastStore,
               nstore>>
reportVars == <<computed, exported>>
lockVars == <<holder, worker, reader, guarded>>
readVars == <<dash, svc, lastRead>>
handleVars == <<dpc, stop_flag, flags, monitor_handle, alive, inStore, observed>>
ghostVars == <<loaded_total, dropped>>
dashboardVars == <<handleVars, ghostVars>>
auxVars == <<reportVars, lockVars, readVars, dashboardVars>>
vars == <<monitorVars, historyVars, syncVars, boardVars, clientVars, storeVars, auxVars>>

NoSession == [start |-> 0, last_seen |-> 0]

MonitorSnapshot_default == [status_text |-> "", active_session |-> None, last_session |-> None]

\* The state in which the process starts, `found` being the active marker
\* file it finds.
MonitorStart(found) ==
    /\ pc = "not_started"
    /\ stop = FALSE
    /\ active = None
    /\ session = NoSession
    /\ finCtx = "startup"
    /\ saved = None
    /\ now = 0
    /\ min_session_minutes \in MinSessionChoices
    /\ activeFile = found
    /\ sessionsFile = AbsentSessions
    /\ snapshot = MonitorSnapshot_default
    /\ clock = 0
    /\ runs = 0
    /\ nticks = 0
    /\ ticks = <<>>
    /\ appended = <<>>
    /\ loaded = None
    /\ startupProbe = "none"
    /\ failedAt = "none"
    /\ probesAfterStop = 0
    /\ histAtStop = AbsentSessions
    /\ tickHist = AbsentSessions
    /\ branch = "none"
    /\ origin = None

\* A first start: no marker on disk.
MonitorInit == MonitorStart(AbsentActive)

\* The marker an earlier process left when it was killed or stopped after a
\* single true tick, one poll interval before this process started.
LeftMarker == [start |-> -PollUnits, last_seen |-> -PollUnits]

Ended == pc \in {"not_started", "exited", "failed"}

\* `?`: run returns the error.
Fail(at) == pc' = "failed" /\ failedAt' = at


\* This run's last poll tick with probe false, 0 when it had none: the ticks
\* after it are the current stretch of true ticks.
LastFalseTick ==
    LET falses == {i \in DOMAIN ticks : ~ticks[i].running}
    IN  IF falses = {} THEN 0 ELSE CHOOSE i \in falses : \A j \in falses : j <= i

\* The run that has ended was stopped while Tracking: its last poll tick
\* reported running, or it had resumed a session and was stopped before a tick.
StoppedWhileTracking ==
    /\ pc = "exited"
    /\ active # None
    /\ IF ticks = <<>> THEN startupProbe = "running" ELSE ticks[Len(ticks)].running

\* The time of the first true tick of the interval that run was tracking:
\* the one it had taken over, when it resumed a session and saw no false tick.
FirstTrueTick ==
    IF LastFalseTick = 0 /\ startupProbe = "running" THEN origin
    ELSE Some(ticks[LastFalseTick + 1].t)

\* Monitor::run is called: PlaytimeApp::start_monitor spawns a worker once the
\* previous one has been joined, or main's run_monitor calls it.
Restart(interval) ==
    /\ Ended
    /\ runs < MaxRuns
    /\ \E gap \in RestartGaps : clock' = IF runs = 0 THEN clock ELSE clock + gap
    /\ pc' = "new_store"
    /\ stop' = FALSE
    /\ active' = None
    /\ session' = NoSession
    /\ saved' = None
    /\ runs' = runs + 1
    /\ ticks' = <<>>
    /\ appended' = <<>>
    /\ loaded' = None
    /\ startupProbe' = "none"
    /\ failedAt' = "none"
    /\ probesAfterStop' = 0
    /\ branch' = "none"
    /\ histAtStop' = sessionsFile
    /\ tickHist' = sessionsFile
    /\ origin' = interval
    /\ UNCHANGED <<finCtx, now, min_session_minutes, activeFile, sessionsFile,
                   snapshot, nticks>>

Monitor_run == Restart(None)

\* The same call, with the interval that the run before it left open kept in
\* `origin`.
Monitor_run_after_stop == Restart(IF StoppedWhileTracking THEN FirstTrueTick ELSE None)

\* The process is killed (or loses power) while Monitor::run is anywhere
\* between two of its file operations: its memory is gone, the files stay.
crash ==
    /\ ~Ended
    /\ Fail("killed")
    /\ UNCHANGED <<stop, active, session, finCtx, saved, now, min_session_minutes,
                   activeFile, sessionsFile, snapshot, clock>>
    /\ UNCHANGED <<runs, nticks, ticks, appended, loaded, origin, startupProbe,
                   probesAfterStop, histAtStop, tickHist, branch>>

\* line 42: SessionStore::new()?
SessionStore_new ==
    /\ pc = "new_store"
    /\ \E ok \in BOOLEAN :
          IF ok THEN pc' = "load_active" /\ UNCHANGED failedAt
                ELSE Fail("new_store")
    /\ UNCHANGED <<stop, active, session, finCtx, saved, now, min_session_minutes,
                   activeFile, sessionsFile, snapshot, clock>>
    /\ UNCHANGED <<runs, nticks, ticks, appended, loaded, origin, startupProbe,
                   probesAfterStop, histAtStop, tickHist, branch>>

\* lines 43-45: store.load_active().context(..)?
restore_active ==
    /\ pc = "load_active"
    /\ \E readErr \in BOOLEAN :
          LET r == load_active(activeFile, readErr) IN
          IF r.ok THEN /\ active' = r.val
                       /\ loaded' = r.val
                       /\ pc' = "pub_init"
                       /\ UNCHANGED failedAt
                  ELSE /\ Fail("load_active")
                       /\ UNCHANGED <<active, loaded>>
    /\ UNCHANGED <<stop, session, finCtx, saved, now, min_session_minutes,
                   activeFile, sessionsFile, snapshot, clock>>
    /\ UNCHANGED <<runs, nticks, ticks, appended, startupProbe,
                   probesAfterStop, histAtStop, tickHist, branch, origin>>

\* The closure each update_snapshot call of run applies, by call site.
SnapshotClosure(at, snap, act, sess, sv) ==
    CASE at = "pub_init" ->
            [snap EXCEPT !.status_text = "Idle", !.active_session = act]
      [] at = "pub_recovered" ->
            [status_text |-> "Idle", active_session |-> None, last_session |-> sv]
      [] at = "pub_resumed" ->
            [snap EXCEPT !.status_text = "Tracking", !.active_session = act]
      [] at = "pub_stop" ->
            [snap EXCEPT !.active_session = act, !.status_text = "Pending resume"]
      [] at = "pub_heartbeat" ->
            [snap EXCEPT !.status_text = "Tracking", !.active_session = act]
      [] at = "pub_new" ->
            [snap EXCEPT !.status_text = "Tracking", !.active_session = Some(sess)]
      [] at = "pub_saved" ->
            [status_text |-> "Idle", active_session |-> None, last_session |-> sv]
      [] at = "pub_discarded" ->
            [snap EXCEPT !.status_text = "Idle", !.active_session = None]
      [] at = "pub_idle" ->
            [snap EXCEPT !.status_text = "Idle", !.active_session = None]

PublishPcs == {"pub_init", "pub_recovered", "pub_resumed", "pub_stop", "pub_heartbeat",
               "pub_new", "pub_saved", "pub_discarded", "pub_idle"}

\* Where run goes on after each update_snapshot call.
AfterPublish(at) ==
    CASE at = "pub_init" -> "startup_probe"
      [] at \in {"pub_recovered", "pub_resumed"} -> "check"
      [] at = "pub_stop" -> "exited"
      [] OTHER -> "sleep"

\* Monitor::update_snapshot: lock, apply the closure, unlock.  Line 126
\* (active = Some(session)) follows the call of line 122.
update_snapshot ==
    /\ pc \in PublishPcs
    /\ snapshot' = SnapshotClosure(pc, snapshot, active, session, saved)
    /\ active' = IF pc = "pub_new" THEN Some(session) ELSE active
    /\ pc' = AfterPublish(pc)
    /\ UNCHANGED <<stop, session, finCtx, saved, now, min_session_minutes,
                   activeFile, sessionsFile, clock>>
    /\ UNCHANGED historyVars

\* lines 58-85: the probe at startup, and what is done with a restored marker.
startup_probe ==
    /\ pc = "startup_probe"
    /\ \E running \in BOOLEAN :
          IF active = None
          THEN /\ pc' = "check"
               /\ UNCHANGED <<session, finCtx, startupProbe>>
          ELSE /\ session' = Unwrap(active)
               /\ IF ~running
                  THEN /\ pc' = "finalize"
                       /\ finCtx' = "startup"
                       /\ startupProbe' = "recovering"
                  ELSE /\ pc' = "pub_resumed"
                       /\ startupProbe' = "running"
                       /\ UNCHANGED finCtx
    /\ UNCHANGED <<stop, active, saved, now, min_session_minutes,
                   activeFile, sessionsFile, snapshot, clock>>
    /\ UNCHANGED <<runs, nticks, ticks, appended, loaded, origin, failedAt,
                   probesAfterStop, histAtStop, tickHist, branch>>


\* What run does with finalize_session's Ok value: lines 66-78 at startup
\* (`active = None` only under `if let Some(saved)`), lines 130-146 in the loop.
finalize_return(rv) ==
    /\ saved' = rv
    /\ IF finCtx = "startup"
       THEN /\ active' = IF rv # None THEN None ELSE active
            /\ pc' = IF rv # None THEN "pub_recovered" ELSE "check"
            /\ startupProbe' = IF rv # None THEN "recorded" ELSE "discarded"
            /\ UNCHANGED branch
       ELSE /\ pc' = IF rv # None THEN "pub_saved" ELSE "pub_discarded"
            /\ branch' = IF rv # None THEN "saved" ELSE "discarded"
            /\ UNCHANGED <<active, startupProbe>>

FinalizeFailure == IF finCtx = "startup" THEN "startup_finalize" ELSE "tick_finalize"

\* finalize_session, lines 208-212: too short, clear the marker, Ok(None).
finalize_short ==
    /\ pc = "finalize"
    /\ TooShort(session, min_session_minutes)
    /\ \E removeErr \in BOOLEAN :
          LET r == clear_active(activeFile, removeErr) IN
          /\ activeFile' = r.file
          /\ IF r.ok THEN finalize_return(None) /\ UNCHANGED failedAt
                     ELSE Fail(FinalizeFailure) /\ UNCHANGED <<saved, active, startupProbe, branch>>
    /\ UNCHANGED <<stop, session, finCtx, now, min_session_minutes, sessionsFile,
                   snapshot, clock>>
    /\ UNCHANGED <<runs, nticks, ticks, appended, loaded, origin, probesAfterStop,
                   histAtStop, tickHist>>

finalize_append_clearing_first ==
    /\ pc = "finalize"
    /\ ~TooShort(session, min_session_minutes)
    /\ activeFile' = clear_active(activeFile, FALSE).file
    /\ \E fault \in {"none", "read", "write"} :
          LET new == Session_new(session.start, session.last_seen)
              r == load_sessions(sessionsFile, fault = "read")
          IN  IF ~r.ok
              THEN /\ Fail(FinalizeFailure)
                   /\ UNCHANGED <<sessionsFile, appended, saved>>
              ELSE IF fault = "write"
              THEN /\ sessionsFile' \in AfterFailedWrite(sessionsFile, CorruptSessions)
                   /\ Fail(FinalizeFailure)
                   /\ UNCHANGED <<appended, saved>>
              ELSE /\ sessionsFile' = save_sessions_payload(Append(r.val, new))
                   /\ appended' = Append(appended, new)
                   /\ saved' = Some(new)
                   /\ pc' = "fin_clear"
                   /\ UNCHANGED failedAt
    /\ UNCHANGED <<stop, active, session, finCtx, now, min_session_minutes,
                   snapshot, clock>>
    /\ UNCHANGED <<runs, nticks, ticks, loaded, origin, startupProbe, probesAfterStop,
                   histAtStop, tickHist, branch>>

\* finalize_session, lines 213-214: Session::new, store.append_session(..)?
\* append_session is load_sessions, push, save_sessions.
finalize_append ==
    /\ pc = "finalize"
    /\ ~TooShort(session, min_session_minutes)
    /\ \E fault \in {"none", "read", "write"} :
          LET new == Session_new(session.start, session.last_seen)
              r == load_sessions(sessionsFile, fault = "read")
          IN  IF ~r.ok
              THEN /\ Fail(FinalizeFailure)
                   /\ UNCHANGED <<sessionsFile, appended, saved>>
              ELSE IF fault = "write"
              THEN /\ sessionsFile' \in AfterFailedWrite(sessionsFile, CorruptSessions)
                   /\ Fail(FinalizeFailure)
                   /\ UNCHANGED <<appended, saved>>
              ELSE /\ sessionsFile' = save_sessions_payload(Append(r.val, new))
                   /\ appended' = Append(appended, new)
                   /\ saved' = Some(new)
                   /\ pc' = "fin_clear"
                   /\ UNCHANGED failedAt
    /\ UNCHANGED <<stop, active, session, finCtx, now, min_session_minutes, activeFile,
                   snapshot, clock>>
    /\ UNCHANGED <<runs, nticks, ticks, loaded, origin, startupProbe, probesAfterStop,
                   histAtStop, tickHist, branch>>

\* finalize_session, lines 215-216: store.clear_active()?, Ok(Some(session)).
finalize_clear ==
    /\ pc = "fin_clear"
    /\ \E removeErr \in BOOLEAN :
          LET r == clear_active(activeFile, removeErr) IN
          /\ activeFile' = r.file
          /\ IF r.ok THEN finalize_return(saved) /\ UNCHANGED failedAt
                     ELSE Fail(FinalizeFailure) /\ UNCHANGED <<saved, active, startupProbe, branch>>
    /\ UNCHANGED <<stop, session, finCtx, now, min_session_minutes, sessionsFile,
                   snapshot, clock>>
    /\ UNCHANGED <<runs, nticks, ticks, appended, loaded, origin, probesAfterStop,
                   histAtStop, tickHist>>

StopObservedWhenIdle(flag, act) == flag /\ act = None

\* line 88: stop.load(Ordering::SeqCst).
StopObserved(flag, act) == flag

\* lines 88-98: the stop flag is read at the head of the loop.  A tick is
\* admitted only while the model's tick budget lasts.
stop_check ==
    /\ pc = "check"
    /\ \/ /\ StopObserved(stop, active)
          /\ pc' = IF active # None THEN "stop_save" ELSE "exited"
          /\ histAtStop' = sessionsFile
          /\ UNCHANGED nticks
       \/ /\ ~StopObserved(stop, active)
          /\ nticks < MaxTicks
          /\ nticks' = nticks + 1
          /\ pc' = "probe"
          /\ UNCHANGED histAtStop
    /\ UNCHANGED monitorVars_but_pc
    /\ UNCHANGED <<runs, ticks, appended, loaded, origin, startupProbe, failedAt,
                   probesAfterStop, tickHist, branch>>

\* line 90: store.save_active(&active)? on the way out.
stop_save ==
    /\ pc = "stop_save"
    /\ \E writeErr \in BOOLEAN :
          IF writeErr
          THEN /\ activeFile' \in AfterFailedWrite(activeFile, CorruptActive)
               /\ Fail("stop_save")
          ELSE /\ activeFile' = save_active_payload(Unwrap(active))
               /\ pc' = "pub_stop"
               /\ UNCHANGED failedAt
    /\ UNCHANGED <<stop, active, session, finCtx, saved, now, min_session_minutes,
                   sessionsFile, snapshot, clock>>
    /\ UNCHANGED <<runs, nticks, ticks, appended, loaded, origin, startupProbe,
                   probesAfterStop, histAtStop, tickHist, branch>>

\* lines 100-129 and 147: probe, read the clock, pick the branch.
poll_tick ==
    /\ pc = "probe"
    /\ \E running \in BOOLEAN :
          /\ ticks' = Append(ticks, [t |-> clock, running |-> running])
          /\ IF running
             THEN IF active # None
                  THEN /\ active' = Some(Heartbeat(Unwrap(active), clock))
                       /\ pc' = "save_heartbeat"
                       /\ branch' = "heartbeat"
                       /\ UNCHANGED <<session, finCtx>>
                  ELSE /\ session' = ActiveSession_new(clock)
                       /\ pc' = "save_new"
                       /\ branch' = "new"
                       /\ UNCHANGED <<active, finCtx>>
             ELSE IF active # None
                  THEN /\ session' = Unwrap(active)
                       /\ active' = None
                       /\ finCtx' = "loop"
                       /\ pc' = "finalize"
                       /\ branch' = "finalize"
                  ELSE /\ pc' = "pub_idle"
                       /\ branch' = "idle"
                       /\ UNCHANGED <<active, session, finCtx>>
    /\ now' = clock
    /\ probesAfterStop' = IF stop THEN probesAfterStop + 1 ELSE probesAfterStop
    /\ tickHist' = sessionsFile
    /\ UNCHANGED <<stop, saved, min_session_minutes, activeFile, sessionsFile,
                   snapshot, clock>>
    /\ UNCHANGED <<runs, nticks, appended, loaded, origin, startupProbe, failedAt, histAtStop>>

\* lines 108 and 117: store.save_active(..)? of the heartbeat or of the new
\* ActiveSession.
tick_save_active ==
    /\ pc \in {"save_heartbeat", "save_new"}
    /\ \E writeErr \in BOOLEAN :
          IF writeErr
          THEN /\ activeFile' \in AfterFailedWrite(activeFile, CorruptActive)
               /\ Fail("tick_save_active")
          ELSE /\ activeFile' = save_active_payload(
                                   IF pc = "save_new" THEN session ELSE Unwrap(active))
               /\ pc' = IF pc = "save_new" THEN "pub_new" ELSE "pub_heartbeat"
               /\ UNCHANGED failedAt
    /\ UNCHANGED <<stop, active, session, finCtx, saved, now, min_session_minutes,
                   sessionsFile, snapshot, clock>>
    /\ UNCHANGED <<runs, nticks, ticks, appended, loaded, origin, startupProbe,
                   probesAfterStop, histAtStop, tickHist, branch>>

\* line 156: thread::sleep(self.poll_interval).
sleep ==
    /\ pc = "sleep"
    /\ clock' = clock + PollUnits
    /\ pc' = "check"
    /\ UNCHANGED <<stop, active, session, finCtx, saved, now, min_session_minutes,
                   activeFile, sessionsFile, snapshot>>
    /\ UNCHANGED historyVars

\* PlaytimeApp::stop_monitor, line 588: stop_flag.store(true).
stop_monitor ==
    /\ ~Ended
    /\ ~stop
    /\ stop' = TRUE
    /\ UNCHANGED <<pc, active, session, finCtx, saved, now, min_session_minutes,
                   activeFile, sessionsFile, snapshot, clock>>
    /\ UNCHANGED historyVars

-----------------------------------------------------------------------------
(* dashboard.rs: the leaderboard sync of PlaytimeApp *)

\* str::trim on the user names the model enters.
Trim(name) == IF name = " " THEN "" ELSE name

Usernames == {"", " ", "ann"}
Endpoints == {"", "local"}

\* What the settings panel can hold (pending_settings).
SettingsChoices ==
    [sync_leaderboard : BOOLEAN, leaderboard_username : Usernames,
     leaderboard_endpoint : Endpoints]

\* AppSettings::sanitize, the leaderboard fields.
sanitize(st) == [st EXCEPT !.leaderboard_username = Trim(st.leaderboard_username)]

\* compute_analytics, total_minutes: the sum of the durations (in seconds).
RECURSIVE total_seconds(_)
total_seconds(list) ==
    IF list = <<>> THEN 0
    ELSE list[1].duration_seconds + total_seconds(Tail(list))

\* PlaytimeApp::refresh_sessions: the analytics it leaves.
refreshed_analytics(file, readErr) ==
    LET r == load_sessions(file, readErr) IN
    IF r.ok THEN Some(total_seconds(sort_by_start(r.val))) ELSE None

FetchOnly == [kind |-> "FetchOnly", username |-> "", total_minutes |-> 0]
SubmitAndFetch(username, total) ==
    [kind |-> "SubmitAndFetch", username |-> username, total_minutes |-> total]

\* lines 915-919 and 945-949: analytics.total_minutes, or 0.0 without analytics.
total_for_sync(an) == IF an = None THEN 0 ELSE Unwrap(an)

\* PlaytimeApp::maybe_sync_leaderboard: the job it hands to
\* start_leaderboard_job, if any.
maybe_sync_job(inflight, client, attempt, elapsed, st, an) ==
    IF inflight THEN None
    ELSE IF client = None THEN None
    ELSE IF ~(attempt = None \/ elapsed) THEN None
    ELSE IF st.sync_leaderboard
         THEN IF Trim(st.leaderboard_username) = ""
              THEN Some(FetchOnly)
              ELSE Some(SubmitAndFetch(Trim(st.leaderboard_username), total_for_sync(an)))
         ELSE Some(FetchOnly)

\* PlaytimeApp::force_leaderboard_sync: the job it hands to
\* start_leaderboard_job, if any.
force_sync_job(inflight, client, st, an) ==
    IF inflight THEN None
    ELSE IF client = None THEN None
    ELSE IF st.sync_leaderboard
         THEN IF Trim(st.leaderboard_username) = ""
              THEN None
              ELSE Some(SubmitAndFetch(Trim(st.leaderboard_username), total_for_sync(an)))
         ELSE Some(FetchOnly)

\* PlaytimeApp::start_leaderboard_job(job), called with the fields as they
\* are at the call: refused while a job is in flight or without a client;
\* otherwise a channel is made, its receiver kept, and a thread spawned.
start_leaderboard_job(job, inflight, client, rx, attempt) ==
    IF job = None \/ inflight \/ client = None
    THEN /\ leaderboard_inflight' = inflight
         /\ leaderboard_rx' = rx
         /\ last_leaderboard_attempt' = attempt
         /\ UNCHANGED <<threads, nextJob>>
    ELSE /\ nextJob <= MaxJobs
         /\ leaderboard_rx' = Some(nextJob)
         /\ leaderboard_inflight' = TRUE
         /\ last_leaderboard_attempt' = Some("instant")
         /\ threads' = threads \cup
                {[id |-> nextJob, job |-> Unwrap(job), client |-> Unwrap(client)]}
         /\ nextJob' = nextJob + 1

\* Dropping a Receiver discards what was sent to it.
DropReceiver(box, rx) == {m \in box : m.chan \notin rx}

\* LeaderboardClient::auto's outcome in initialize_leaderboard_client.
built_client(ok) == IF ok THEN Some(nextClient) ELSE None

\* AppSettings::default, the leaderboard fields.
AppSettings_default ==
    [sync_leaderboard |-> TRUE, leaderboard_username |-> "", leaderboard_endpoint |-> ""]

SyncInit ==
    /\ constructed = FALSE
    /\ settings = AppSettings_default
    /\ analytics = None
    /\ leaderboard_client = None
    /\ leaderboard_entries = None
    /\ leaderboard_rx = None
    /\ leaderboard_inflight = FALSE
    /\ last_leaderboard_attempt = None
    /\ last_leaderboard_success = None
    /\ threads = {}
    /\ mailbox = {}
    /\ nextJob = 1
    /\ nextClient = 1

\* PlaytimeApp::new with the settings loaded from disk: sanitize (line 463),
\* then lines 535-538: refresh_sessions, (start_monitor,)
\* initialize_leaderboard_client, maybe_queue_initial_leaderboard_fetch.
PlaytimeApp_new ==
    /\ ~constructed
    /\ constructed' = TRUE
    /\ \E initial_settings \in SettingsChoices, readErr \in BOOLEAN, ok \in BOOLEAN :
          /\ settings' = sanitize(initial_settings)
          /\ analytics' = refreshed_analytics(sessionsFile, readErr)
          /\ leaderboard_client' = built_client(ok)
          /\ nextClient' = IF ok THEN nextClient + 1 ELSE nextClient
          /\ start_leaderboard_job(
                maybe_sync_job(leaderboard_inflight, leaderboard_client', None, FALSE,
                               settings', analytics'),
                leaderboard_inflight, leaderboard_client', leaderboard_rx, None)
    /\ UNCHANGED <<leaderboard_entries, last_leaderboard_success, mailbox>>

\* PlaytimeApp::refresh_sessions, from update every refresh interval.
refresh_sessions_when_synced ==
    /\ constructed
    /\ ~leaderboard_inflight
    /\ \E readErr \in BOOLEAN : analytics' = refreshed_analytics(sessionsFile, readErr)
    /\ UNCHANGED <<constructed, settings, leaderboard_client, leaderboard_entries,
                   leaderboard_rx, leaderboard_inflight, last_leaderboard_attempt,
                   last_leaderboard_success, threads, mailbox, nextJob, nextClient>>

refresh_sessions ==
    /\ constructed
    /\ \E readErr \in BOOLEAN : analytics' = refreshed_analytics(sessionsFile, readErr)
    /\ UNCHANGED <<constructed, settings, leaderboard_client, leaderboard_entries,
                   leaderboard_rx, leaderboard_inflight, last_leaderboard_attempt,
                   last_leaderboard_success, threads, mailbox, nextJob, nextClient>>

\* PlaytimeApp::maybe_sync_leaderboard, from update every frame.  `elapsed`:
\* the sync interval has passed since the last attempt.
maybe_sync_leaderboard ==
    /\ constructed
    /\ \E elapsed \in BOOLEAN :
          start_leaderboard_job(
             maybe_sync_job(leaderboard_inflight, leaderboard_client,
                            last_leaderboard_attempt, elapsed, settings, analytics),
             leaderboard_inflight, leaderboard_client, leaderboard_rx,
             last_leaderboard_attempt)
    /\ UNCHANGED <<constructed, settings, analytics, leaderboard_client,
                   leaderboard_entries, last_leaderboard_success, mailbox, nextClient>>

\* PlaytimeApp::force_leaderboard_sync (the "sync now" button): line 930
\* forgets the last attempt before anything else.
force_leaderboard_sync ==
    /\ constructed
    /\ start_leaderboard_job(
          force_sync_job(leaderboard_inflight, leaderboard_client, settings, analytics),
          leaderboard_inflight, leaderboard_client, leaderboard_rx, None)
    /\ UNCHANGED <<constructed, settings, analytics, leaderboard_client,
                   leaderboard_entries, last_leaderboard_success, mailbox, nextClient>>

apply_leaderboard_settings_keeping_receiver ==
    /\ constructed
    /\ nextClient <= MaxClients
    /\ \E new \in SettingsChoices, ok \in BOOLEAN :
          LET pending == sanitize(new) IN
          IF pending = settings
          THEN UNCHANGED <<settings, leaderboard_client, leaderboard_entries,
                           leaderboard_rx, leaderboard_inflight,
                           last_leaderboard_attempt, threads, mailbox, nextJob,
                           nextClient>>
          ELSE /\ settings' = pending
               /\ leaderboard_client' = built_client(ok)
               /\ nextClient' = IF ok THEN nextClient + 1 ELSE nextClient
               /\ leaderboard_entries' = None
               /\ UNCHANGED mailbox
               /\ start_leaderboard_job(
                     maybe_sync_job(leaderboard_inflight, leaderboard_client', None,
                                    FALSE, settings', analytics),
                     leaderboard_inflight, leaderboard_client', leaderboard_rx, None)
    /\ UNCHANGED <<constructed, analytics, last_leaderboard_success>>

\* PlaytimeApp::apply_leaderboard_settings with `new` in the settings panel.
\* Lines 1010-1014 build the client again, clear the entries, drop the
\* receiver and clear leaderboard_inflight, whether or not a sync thread is
\* still running; line 1038 then calls maybe_sync_leaderboard.
apply_leaderboard_settings ==
    /\ constructed
    /\ nextClient <= MaxClients
    /\ \E new \in SettingsChoices, ok \in BOOLEAN :
          LET pending == sanitize(new) IN
          IF pending = settings
          THEN UNCHANGED <<settings, leaderboard_client, leaderboard_entries,
                           leaderboard_rx, leaderboard_inflight,
                           last_leaderboard_attempt, threads, mailbox, nextJob,
                           nextClient>>
          ELSE /\ settings' = pending
               /\ leaderboard_client' = built_client(ok)
               /\ nextClient' = IF ok THEN nextClient + 1 ELSE nextClient
               /\ leaderboard_entries' = None
               /\ mailbox' = DropReceiver(mailbox, leaderboard_rx)
               /\ start_leaderboard_job(
                     maybe_sync_job(FALSE, leaderboard_client', None, FALSE, settings',
                                    analytics),
                     FALSE, leaderboard_client', None, None)
    /\ UNCHANGED <<constructed, analytics, last_leaderboard_success>>

try_recv_never_disconnected(rx, box, running) ==
    IF rx = None THEN "none"
    ELSE IF \E m \in box : m.chan \in rx THEN "ok"
    ELSE "empty"

\* rx.try_recv() on the receiver kept, if any.
try_recv(rx, box, running) ==
    IF rx = None THEN "none"
    ELSE IF \E m \in box : m.chan \in rx THEN "ok"
    ELSE IF \E t \in running : t.id \in rx THEN "empty"
    ELSE "disconnected"

\* PlaytimeApp::poll_leaderboard_updates, from update every frame.
poll_leaderboard_updates ==
    /\ constructed
    /\ LET got == try_recv(leaderboard_rx, mailbox, threads) IN
       IF got \in {"none", "empty"}
       THEN UNCHANGED <<leaderboard_inflight, leaderboard_rx, leaderboard_entries,
                        last_leaderboard_success, mailbox>>
       ELSE /\ leaderboard_inflight' = FALSE
            /\ leaderboard_rx' = None
            /\ mailbox' = DropReceiver(mailbox, leaderboard_rx)
            /\ IF got = "ok"
               THEN LET result == (CHOOSE m \in mailbox : m.chan \in leaderboard_rx).result IN
                    /\ leaderboard_entries' =
                          IF result.entries # None THEN result.entries
                                                   ELSE leaderboard_entries
                    /\ last_leaderboard_success' =
                          IF result.message THEN Some(result.client)
                                            ELSE last_leaderboard_success
               ELSE UNCHANGED <<leaderboard_entries, last_leaderboard_success>>
    /\ UNCHANGED <<constructed, settings, analytics, leaderboard_client,
                   last_leaderboard_attempt, threads, nextJob, nextClient>>

\* The thread of start_leaderboard_job, lines 813-849: submit (when asked),
\* fetch, send the outcome; tx.send's error, when the receiver is gone, is
\* ignored.  message: Some iff the submit succeeded; entries: Some iff the
\* fetch succeeded; error: Some iff either failed.
sync_thread ==
    /\ \E t \in threads, submitOk \in BOOLEAN, fetchOk \in BOOLEAN :
          LET result == [message |-> t.job.kind = "SubmitAndFetch" /\ submitOk,
                         entries |-> IF fetchOk THEN Some(t.client) ELSE None,
                         error |-> (t.job.kind = "SubmitAndFetch" /\ ~submitOk) \/ ~fetchOk,
                         client |-> t.client]
          IN  /\ threads' = threads \ {t}
              /\ mailbox' = IF t.id \in leaderboard_rx
                            THEN mailbox \cup {[chan |-> t.id, result |-> result]}
                            ELSE mailbox
    /\ UNCHANGED <<constructed, settings, analytics, leaderboard_client,
                   leaderboard_entries, leaderboard_rx, leaderboard_inflight,
                   last_leaderboard_attempt, last_leaderboard_success, nextJob,
                   nextClient>>

\* The thread of start_leaderboard_job ends without reaching tx.send (a
\* panic inside the client): its Sender is dropped with nothing sent.
sync_thread_dies ==
    /\ \E t \in threads : threads' = threads \ {t}
    /\ UNCHANGED <<constructed, settings, analytics, leaderboard_client,
                   leaderboard_entries, leaderboard_rx, leaderboard_inflight,
                   last_leaderboard_attempt, last_leaderboard_success, mailbox,
                   nextJob, nextClient>>

SyncNext ==
    \/ PlaytimeApp_new /\ UNCHANGED <<monitorVars, historyVars, boardVars, clientVars, storeVars, auxVars>>
    \/ refresh_sessions /\ UNCHANGED <<monitorVars, historyVars, boardVars, clientVars, storeVars, auxVars>>
    \/ maybe_sync_leaderboard /\ UNCHANGED <<monitorVars, historyVars, boardVars, clientVars, storeVars, auxVars>>
    \/ force_leaderboard_sync /\ UNCHANGED <<monitorVars, historyVars, boardVars, clientVars, storeVars, auxVars>>
    \/ apply_leaderboard_settings /\ UNCHANGED <<monitorVars, historyVars, boardVars, clientVars, storeVars, auxVars>>
    \/ poll_leaderboard_updates /\ UNCHANGED <<monitorVars, historyVars, boardVars, clientVars, storeVars, auxVars>>
    \/ sync_thread /\ UNCHANGED <<monitorVars, historyVars, boardVars, clientVars, storeVars, auxVars>>

-----------------------------------------------------------------------------
(* leaderboard.rs: strings and the ranked list *)

\* A string is a sequence of character codes: 0 is a space, 1..26 are the
\* lowercase letters a..z, -1..-26 the uppercase letters A..Z, and the codes
\* from 27 on are characters without case.
to_ascii_lowercase(c) == IF c < 0 THEN -c ELSE c

\* str::eq_ignore_ascii_case.
eq_ignore_ascii_case(a, b) ==
    /\ Len(a) = Len(b)
    /\ \A i \in DOMAIN a : to_ascii_lowercase(a[i]) = to_ascii_lowercase(b[i])

RECURSIVE trim_start(_)
trim_start(s) == IF s # <<>> /\ s[1] = 0 THEN trim_start(Tail(s)) ELSE s

RECURSIVE trim_end(_)
trim_end(s) ==
    IF s # <<>> /\ s[Len(s)] = 0 THEN trim_end(SubSeq(s, 1, Len(s) - 1)) ELSE s

\* str::trim.
str_trim(s) == trim_end(trim_start(s))

\* entries.truncate(25)
LeaderboardCap == 25

truncate_one_more(list) ==
    SubSeq(list, 1, IF Len(list) < LeaderboardCap + 1 THEN Len(list) ELSE LeaderboardCap + 1)

truncate(list) ==
    SubSeq(list, 1, IF Len(list) < LeaderboardCap THEN Len(list) ELSE LeaderboardCap)

\* sort_by(|a, b| b.total_minutes.partial_cmp(&a.total_minutes)) is a stable
\* sort, descending by total_minutes.
RECURSIVE InsertByTotal(_, _)
InsertByTotal(sorted, x) ==
    IF sorted = <<>> THEN <<x>>
    ELSE IF sorted[Len(sorted)].total_minutes >= x.total_minutes THEN Append(sorted, x)
    ELSE Append(InsertByTotal(SubSeq(sorted, 1, Len(sorted) - 1), x), sorted[Len(sorted)])

keep_insertion_order(s) == s

RECURSIVE sort_by_total_desc(_)
sort_by_total_desc(s) ==
    IF s = <<>> THEN <<>>
    ELSE InsertByTotal(sort_by_total_desc(SubSeq(s, 1, Len(s) - 1)), s[Len(s)])

\* iter_mut().find(..): the index of the first entry whose stored name equals
\* `username`, as passed, ignoring ASCII case; 0 when there is none.
find_entry(entries, username) ==
    LET hits == {i \in DOMAIN entries :
                    eq_ignore_ascii_case(entries[i].username, username)}
    IN  IF hits = {} THEN 0 ELSE CHOOSE i \in hits : \A j \in hits : i <= j

\* update_local_entries: overwrite the match's total or push the trimmed name,
\* sort, truncate.
update_local_entries(entries, username, total_minutes) ==
    LET i == find_entry(entries, username)
        upserted ==
            IF i # 0
            THEN [entries EXCEPT ![i].total_minutes = total_minutes]
            ELSE Append(entries, [username |-> str_trim(username),
                                  total_minutes |-> total_minutes])
    IN  truncate(sort_by_total_desc(upserted))

\* leaderboard.json: a list that parses, or a file that does not.
ValidBoard(list) == [kind |-> "valid", data |-> list]
CorruptBoard == [kind |-> "corrupt", data |-> <<>>]

\* read_local_entries.
read_local_entries(file, readErr) ==
    IF readErr \/ file.kind = "corrupt" THEN [ok |-> FALSE, val |-> <<>>]
    ELSE [ok |-> TRUE, val |-> file.data]

-----------------------------------------------------------------------------
(* The submissions a behaviour makes *)

\* The user names of a short behaviour: " ", "a", "A", " a", "b".
SmallNames == {<<0>>, <<1>>, <<-1>>, <<0, 1>>, <<2>>}

\* A long run submits a new name each time; its totals follow a pattern:
\* constant, rising, falling or cycling.
Patterns == [stride : 0..MaxStride, mod : {MaxTotal + 1, MaxNames + 1}, dir : {1, -1}]
NoPattern == [stride |-> 0, mod |-> MaxTotal + 1, dir |-> 1]
RunName(k) == <<k>>
RunTotal(p, k) == (p.dir * p.stride * k) % p.mod

\* The I/O failure, if any, that a call meets.  The long runs meet none.
Faults == {"none", "read", "write"}
FaultAllowed(fault) ==
    fault = "none" \/ (faults < MaxFaults /\ mode \in {"none", "local", "service"})

\* Whether a stored name equals `username`, trimmed, ignoring ASCII case.
IsStored(entries, username) ==
    \E i \in DOMAIN entries :
        eq_ignore_ascii_case(entries[i].username, str_trim(username))

NoCall == [username |-> <<>>, result |-> "none", stored |-> FALSE, before |-> 0]

\* LeaderboardClient::submit_total_minutes of the Local variant.
Local_submit_total_minutes(username, total_minutes, fault) ==
    LET r == read_local_entries(boardFile, fault = "read")
        call == [username |-> username, result |-> "none",
                 stored |-> IsStored(boardFile.data, username),
                 before |-> Len(boardFile.data)]
    IN  IF str_trim(username) = <<>>
        THEN /\ lastCall' = [call EXCEPT !.result = "blank"]
             /\ UNCHANGED <<boardFile, sent, faults>>
        ELSE /\ faults' = IF fault = "none" THEN faults ELSE faults + 1
             /\ IF ~r.ok
                THEN /\ lastCall' = [call EXCEPT !.result = "read"]
                     /\ UNCHANGED <<boardFile, sent>>
                ELSE IF fault = "write"
                THEN /\ boardFile' \in AfterFailedWrite(boardFile, CorruptBoard)
                     /\ lastCall' = [call EXCEPT !.result = "write"]
                     /\ UNCHANGED sent
                ELSE /\ boardFile' =
                            ValidBoard(update_local_entries(r.val, username, total_minutes))
                     /\ lastCall' = [call EXCEPT !.result = "ok"]
                     /\ sent' = IF mode' = "local_run"
                                THEN Append(sent, [username |-> username,
                                                   total_minutes |-> total_minutes])
                                ELSE sent

\* The dashboard's Local client submits a user name and a total.
local_submit ==
    /\ mode \in {"none", "local"}
    /\ nsub < MaxSmall
    /\ mode' = "local"
    /\ nsub' = nsub + 1
    /\ \E username \in SmallNames, total_minutes \in 0..MaxTotal, fault \in Faults :
          /\ FaultAllowed(fault)
          /\ Local_submit_total_minutes(username, total_minutes, fault)
    /\ UNCHANGED <<pattern, svcEntries, svcFile, req, response>>

\* A long run of submissions to the Local client, one new name each.
local_run_submit ==
    /\ mode \in {"none", "local_run"}
    /\ nsub < MaxNames
    /\ mode' = "local_run"
    /\ nsub' = nsub + 1
    /\ \E p \in (IF mode = "none" THEN Patterns ELSE {pattern}) :
          /\ pattern' = p
          /\ Local_submit_total_minutes(RunName(nsub + 1), RunTotal(p, nsub + 1), "none")
    /\ UNCHANGED <<svcEntries, svcFile, req, response>>

-----------------------------------------------------------------------------
(* bin/leaderboard_server.rs: the LeaderboardService *)

\* The total_minutes of a request body: an f64 that is finite, with its value,
\* or not finite (NaN or an infinity).
NotFinite == [finite |-> FALSE, val |-> 0]
Finite(v) == [finite |-> TRUE, val |-> v]
PayloadTotals == {Finite(v) : v \in -1..1} \cup {NotFinite}

\* submit_handler's checks, lines 137-143.
accepts_negative(username, total_minutes) ==
    /\ str_trim(username) # <<>>
    /\ total_minutes.finite

is_valid_payload(username, total_minutes) ==
    /\ str_trim(username) # <<>>
    /\ total_minutes.finite
    /\ ~(total_minutes.val < 0)

BAD_REQUEST == 400
NO_CONTENT == 204
INTERNAL_SERVER_ERROR == 500

IdleRequest == [pc |-> "idle", username |-> <<>>, total_minutes |-> NotFinite,
                payload |-> <<>>]

NoResponse == [status |-> 0, username |-> <<>>, total_minutes |-> NotFinite]

\* What submit_handler answers, and to which request body.
Respond(status, username, total_minutes) ==
    [status |-> status, username |-> username, total_minutes |-> total_minutes]

\* The user names of the requests: " ", "a", " B".
ServiceNames == {<<0>>, <<1>>, <<0, -2>>}

\* The connection a new request is served on: the tasks are alike, so the
\* first one that is free.
FreeTask == {p \in DOMAIN req : req[p].pc = "idle" /\ \A q \in 1..(p - 1) : req[q].pc # "idle"}

\* submit_handler, lines 137-146: a request arrives on connection p; it is
\* rejected, or LeaderboardState::submit is entered.
handle(p, username, total_minutes) ==
    /\ req[p].pc = "idle"
    /\ IF is_valid_payload(username, total_minutes)
       THEN /\ req' = [req EXCEPT ![p] = [pc |-> "update", username |-> username,
                                          total_minutes |-> total_minutes,
                                          payload |-> <<>>]]
            /\ UNCHANGED response
       ELSE /\ response' = Respond(BAD_REQUEST, username, total_minutes)
            /\ UNCHANGED req
    /\ UNCHANGED <<svcEntries, svcFile, faults, sent, boardFile, lastCall>>

submit_handler ==
    /\ mode \in {"none", "service"}
    /\ nsub < MaxRequests
    /\ mode' = "service"
    /\ nsub' = nsub + 1
    /\ \E p \in FreeTask, username \in ServiceNames, total_minutes \in PayloadTotals :
          handle(p, username, total_minutes)
    /\ UNCHANGED pattern

\* A long run of requests on one connection, one new name each.
submit_handler_run ==
    /\ mode \in {"none", "service_run"}
    /\ nsub < MaxNames
    /\ mode' = "service_run"
    /\ nsub' = nsub + 1
    /\ \E q \in (IF mode = "none" THEN Patterns ELSE {pattern}) :
          /\ pattern' = q
          /\ handle(1, RunName(nsub + 1), Finite(RunTotal(q, nsub + 1)))

\* A task holds the read guard from persist's line 84 until its write is over.
ReadGuardHeld == \E q \in DOMAIN req : req[q].pc = "writing"

\* LeaderboardState::submit, lines 72-75: under the write guard, which is
\* granted only while no read guard is held.
LeaderboardState_submit(p) ==
    /\ req[p].pc = "update"
    /\ ~ReadGuardHeld
    /\ svcEntries' = update_local_entries(svcEntries, str_trim(req[p].username),
                                          req[p].total_minutes.val)
    /\ req' = [req EXCEPT ![p].pc = "persist"]
    /\ UNCHANGED <<mode, pattern, nsub, faults, sent, boardFile, lastCall, svcFile,
                   response>>

\* LeaderboardState::persist, lines 84-85: take a read guard, serialize.
persist_serialize(p) ==
    /\ req[p].pc = "persist"
    /\ req' = [req EXCEPT ![p].pc = "writing", ![p].payload = svcEntries]
    /\ UNCHANGED <<mode, pattern, nsub, faults, sent, boardFile, lastCall, svcEntries,
                   svcFile, response>>

\* LeaderboardState::persist, lines 86-88, and submit_handler's answer, lines
\* 148-150: fs::write the payload, drop the guard, answer.
persist_write(p) ==
    /\ req[p].pc = "writing"
    /\ \E fault \in {"none", "write"} :
          /\ FaultAllowed(fault)
          /\ faults' = IF fault = "none" THEN faults ELSE faults + 1
          /\ \E file \in (IF fault = "none" THEN {ValidBoard(req[p].payload)}
                          ELSE AfterFailedWrite(svcFile, CorruptBoard)) :
                /\ svcFile' = file
                /\ response' = Respond(IF fault = "none" THEN NO_CONTENT
                                       ELSE INTERNAL_SERVER_ERROR,
                                       req[p].username, req[p].total_minutes)
    /\ req' = [req EXCEPT ![p] = IdleRequest]
    /\ UNCHANGED <<mode, pattern, nsub, sent, boardFile, lastCall, svcEntries>>


-----------------------------------------------------------------------------
(* leaderboard.rs: LeaderboardClient::auto and the Remote variant *)

\* "default", "builtin" and "local", the special override values.
DefaultWord == <<4, 5, 6, 1, 21, 12, 20>>
BuiltinWord == <<2, 21, 9, 12, 20, 9, 14>>
LocalWord == <<12, 15, 3, 1, 12>>

\* "https://playtracker.al1e.dev", with ':' = 27, '/' = 28, '.' = 29, '1' = 30.
FALLBACK_GLOBAL_ENDPOINT ==
    <<8, 20, 20, 16, 19, 27, 28, 28, 16, 12, 1, 25, 20, 18, 1, 3, 11, 5, 18, 29,
      1, 12, 30, 5, 29, 4, 5, 22>>

\* "http://a", "HTTP://A" and "http://b".
UrlA == <<8, 20, 20, 16, 27, 28, 28, 1>>
UrlAUpper == <<-8, -20, -20, -16, 27, 28, 28, -1>>
UrlB == <<8, 20, 20, 16, 27, 28, 28, 2>>

normalize_endpoint(value) ==
    IF str_trim(value) = <<>> THEN None ELSE Some(str_trim(value))

\* Option::or_else.
or_else(a, b) == IF a # None THEN a ELSE b

\* env::var("PLAYTIME_LEADERBOARD_URL"), as `env` holds it.
runtime_default_endpoint(env) ==
    IF env = None THEN None ELSE normalize_endpoint(Unwrap(env))

\* option_env!("LEADERBOARD_DEFAULT_URL"), as the build fixed it.
baked_in_default_endpoint(baked) ==
    IF baked = None THEN None ELSE normalize_endpoint(Unwrap(baked))

fallback_global_endpoint == Some(FALLBACK_GLOBAL_ENDPOINT)

global_remote_endpoint(env, baked) ==
    or_else(or_else(baked_in_default_endpoint(baked), runtime_default_endpoint(env)),
            fallback_global_endpoint)

NoClient == [kind |-> "none", endpoint |-> <<>>, secondary |-> None]
BuildFailed == [kind |-> "error", endpoint |-> <<>>, secondary |-> None]

build_remote_client_without_secondary(endpoint, secondary, buildErr) ==
    IF buildErr THEN BuildFailed
    ELSE [kind |-> "remote", endpoint |-> endpoint, secondary |-> None]

\* Client::builder().build() can fail.
build_remote_client(endpoint, secondary, buildErr) ==
    IF buildErr THEN BuildFailed
    ELSE [kind |-> "remote", endpoint |-> endpoint, secondary |-> secondary]

\* leaderboard.json exists already: nothing is written.
build_local_client == [kind |-> "local", endpoint |-> <<>>, secondary |-> None]

\* LeaderboardClient::auto.
auto(override_endpoint, env, baked, buildErr) ==
    LET global == global_remote_endpoint(env, baked)
        trimmed == str_trim(Unwrap(override_endpoint))
        by_default == IF global # None
                      THEN build_remote_client(Unwrap(global), None, buildErr)
                      ELSE build_local_client
    IN  IF override_endpoint = None THEN by_default
        ELSE IF eq_ignore_ascii_case(trimmed, DefaultWord)
                    \/ eq_ignore_ascii_case(trimmed, BuiltinWord) THEN by_default
        ELSE IF eq_ignore_ascii_case(trimmed, LocalWord) THEN build_local_client
        ELSE IF normalize_endpoint(trimmed) # None
        THEN build_remote_client(
                 Unwrap(normalize_endpoint(trimmed)),
                 IF global # None
                        /\ ~eq_ignore_ascii_case(Unwrap(global),
                                                 Unwrap(normalize_endpoint(trimmed)))
                 THEN global ELSE None,
                 buildErr)
        ELSE by_default

\* The override handed to auto: none, "default", "BuiltinWord", " local ", blank,
\* or a URL; and the two default URLs around it: unset, blank, or a URL.
Overrides ==
    {None, Some(DefaultWord), Some(<<-2, -21, -9, -12, -20, -9, -14>>),
     Some(<<0>> \o LocalWord \o <<0>>), Some(<<0, 0>>), Some(UrlA),
     Some(<<0>> \o UrlA \o <<0>>), Some(UrlB)}
EnvValues == {None, Some(<<0>>), Some(UrlA), Some(<<0>> \o UrlB)}
BakedValues == {None, Some(<<>>), Some(UrlAUpper), Some(UrlB)}

NoCfg == [override |-> None, env |-> None, baked |-> None]

LeaderboardClient_auto ==
    /\ lclient = NoClient
    /\ \E override_endpoint \in Overrides, env \in EnvValues, baked \in BakedValues,
          buildErr \in BOOLEAN :
          /\ cfg' = [override |-> override_endpoint, env |-> env, baked |-> baked]
          /\ lclient' = auto(override_endpoint, env, baked, buildErr)
    /\ UNCHANGED <<delivered, lastSubmit, nposts>>

\* submit_payload: the request is not built (the endpoint is no URL), is not
\* answered, is answered with a status that is no success, or succeeds.
PostOutcomes == {"ok", "invalid", "unreachable", "status"}

\* errors.into_iter().map(|err| err.to_string()).collect().join(" | ").
join_first_only(errors) == IF errors = <<>> THEN <<>> ELSE <<errors[1]>>

RECURSIVE join(_)
join(errors) ==
    IF errors = <<>> THEN <<>>
    ELSE IF Len(errors) = 1 THEN <<errors[1]>>
    ELSE <<errors[1], "|">> \o join(Tail(errors))

Failed(a) == a.outcome # "ok"
Succeeded(a) == a.outcome = "ok"

NoSubmit == [called |-> FALSE, username |-> <<>>, total_minutes |-> 0,
             attempts |-> <<>>, ok |-> FALSE, error |-> <<>>, before |-> 0]

\* LeaderboardClient::submit_total_minutes of the Remote variant.
Remote_submit_total_minutes(username, total_minutes, first, second) ==
    LET payload == [username |-> str_trim(username), total_minutes |-> total_minutes]
        attempts ==
            <<[endpoint |-> lclient.endpoint, payload |-> payload, outcome |-> first]>>
            \o (IF lclient.secondary # None
                THEN <<[endpoint |-> Unwrap(lclient.secondary), payload |-> payload,
                        outcome |-> second]>>
                ELSE <<>>)
        failures == SelectSeq(attempts, Failed)
        errors == [i \in DOMAIN failures |-> failures[i].outcome]
        call == [called |-> TRUE, username |-> username, total_minutes |-> total_minutes,
                 attempts |-> <<>>, ok |-> FALSE, error |-> <<>>,
                 before |-> Len(delivered)]
    IN  IF str_trim(username) = <<>>
        THEN /\ lastSubmit' = [call EXCEPT !.error = <<"username">>]
             /\ UNCHANGED delivered
        ELSE /\ lastSubmit' = [call EXCEPT !.attempts = attempts,
                                           !.ok = (errors = <<>>),
                                           !.error = join(errors)]
             /\ delivered' = delivered \o SelectSeq(attempts, Succeeded)

remote_submit ==
    /\ lclient.kind = "remote"
    /\ nposts < MaxPosts
    /\ nposts' = nposts + 1
    /\ \E username \in {<<0>>, <<0, 1>>}, total_minutes \in 0..1,
          first \in PostOutcomes,
          second \in (IF lclient.secondary = None THEN {"ok"} ELSE PostOutcomes) :
          Remote_submit_total_minutes(username, total_minutes, first, second)
    /\ UNCHANGED <<cfg, lclient>>

ClientInit ==
    /\ cfg = NoCfg
    /\ lclient = NoClient
    /\ delivered = <<>>
    /\ lastSubmit = NoSubmit
    /\ nposts = 0

-----------------------------------------------------------------------------
(* storage.rs: the SessionStore and its JSON files *)

\* A DateTime<Local> as JSON text: RFC 3339, whole seconds and the fraction
\* of a second with as many digits as it needs.
to_rfc3339_whole_seconds(t) == [secs |-> t \div UnitsPerSecond, frac |-> 0]

to_rfc3339(t) == [secs |-> t \div UnitsPerSecond, frac |-> t % UnitsPerSecond]

parse_rfc3339(text) == text.secs * UnitsPerSecond + text.frac

\* #[derive(Serialize, Deserialize)] of ActiveSession and of Session.
ActiveSession_to_json(a) ==
    [start |-> to_rfc3339(a.start), last_seen |-> to_rfc3339(a.last_seen)]

ActiveSession_from_json(j) ==
    [start |-> parse_rfc3339(j.start), last_seen |-> parse_rfc3339(j.last_seen)]

Session_to_json(x) ==
    [start |-> to_rfc3339(x.start), end |-> to_rfc3339(x.end),
     duration_seconds |-> x.duration_seconds]

Session_from_json(j) ==
    [start |-> parse_rfc3339(j.start), end |-> parse_rfc3339(j.end),
     duration_seconds |-> j.duration_seconds]

Map(f(_), list) == [i \in DOMAIN list |-> f(list[i])]

\* SessionStore::load_sessions, with serde_json::from_str.
SessionStore_load_sessions(file, readErr) ==
    [ok |-> load_sessions(file, readErr).ok,
     val |-> Map(Session_from_json, load_sessions(file, readErr).val)]

\* SessionStore::save_sessions: the text written.
save_sessions_unsorted(sessions) == ValidSessions(Map(Session_to_json, sessions))

SessionStore_save_sessions(sessions) ==
    ValidSessions(Map(Session_to_json, save_sessions_payload(sessions).data))

\* SessionStore::load_active, with serde_json::from_str.
SessionStore_load_active(file, readErr) ==
    [ok |-> load_active(file, readErr).ok,
     val |-> {ActiveSession_from_json(j) : j \in load_active(file, readErr).val}]

\* SessionStore::save_active: the text written.
SessionStore_save_active(a) == save_active_payload(ActiveSession_to_json(a))

\* The instants of the calls, some of them not on a whole second, and the
\* values handed to the store.
StoreTimes == 0..(UnitsPerSecond + 1)
StoreSessions == {Session_new(t, t + d) : t \in StoreTimes, d \in 0..1}
StoreActives == {[start |-> t, last_seen |-> u] : t \in StoreTimes, u \in StoreTimes}

NoStoreCall == [op |-> "none", ok |-> TRUE, sessions |-> <<>>, active |-> None,
                absent |-> FALSE]
Unknown == [known |-> FALSE, val |-> None]
Known(val) == [known |-> TRUE, val |-> val]

StoreCall(m) ==
    /\ storeMode \in {"none", m}
    /\ storeMode' = m
    /\ nstore < MaxStoreCalls
    /\ nstore' = nstore + 1

\* SessionStore::append_session.
append_session ==
    /\ StoreCall("sessions")
    /\ \E x \in StoreSessions, fault \in Faults :
          LET r == SessionStore_load_sessions(sessions_file, fault = "read")
              call == [NoStoreCall EXCEPT !.op = "append_session"]
          IN  IF ~r.ok
              THEN /\ lastStore' = [call EXCEPT !.ok = FALSE]
                   /\ UNCHANGED <<sessions_file, recorded>>
              ELSE IF fault = "write"
              THEN /\ sessions_file' \in AfterFailedWrite(sessions_file, CorruptSessions)
                   /\ lastStore' = [call EXCEPT !.ok = FALSE]
                   /\ UNCHANGED recorded
              ELSE /\ sessions_file' = SessionStore_save_sessions(Append(r.val, x))
                   /\ lastStore' = call
                   /\ recorded' = Append(recorded, x)
    /\ UNCHANGED <<active_file, marker>>

\* SessionStore::load_sessions, as the dashboard calls it.
call_load_sessions ==
    /\ StoreCall("sessions")
    /\ \E readErr \in BOOLEAN :
          LET r == SessionStore_load_sessions(sessions_file, readErr)
          IN  lastStore' = [NoStoreCall EXCEPT !.op = "load_sessions", !.ok = r.ok,
                                                !.sessions = r.val]
    /\ UNCHANGED <<sessions_file, active_file, recorded, marker>>

\* SessionStore::save_active.
call_save_active ==
    /\ StoreCall("active")
    /\ \E a \in StoreActives, writeErr \in BOOLEAN :
          IF writeErr
          THEN /\ active_file' \in AfterFailedWrite(active_file, CorruptActive)
               /\ marker' = IF active_file' = active_file THEN marker ELSE Unknown
               /\ lastStore' = [NoStoreCall EXCEPT !.op = "save_active", !.ok = FALSE]
          ELSE /\ active_file' = SessionStore_save_active(a)
               /\ marker' = Known(Some(a))
               /\ lastStore' = [NoStoreCall EXCEPT !.op = "save_active"]
    /\ UNCHANGED <<sessions_file, recorded>>

\* SessionStore::load_active.
call_load_active ==
    /\ StoreCall("active")
    /\ \E readErr \in BOOLEAN :
          LET r == SessionStore_load_active(active_file, readErr)
          IN  lastStore' = [NoStoreCall EXCEPT !.op = "load_active", !.ok = r.ok,
                                                !.active = r.val]
    /\ UNCHANGED <<sessions_file, active_file, recorded, marker>>

\* SessionStore::clear_active.
call_clear_active ==
    /\ StoreCall("active")
    /\ \E removeErr \in BOOLEAN :
          LET r == clear_active(active_file, removeErr)
          IN  /\ active_file' = r.file
              /\ marker' = IF r.ok THEN Known(None) ELSE marker
              /\ lastStore' = [NoStoreCall EXCEPT !.op = "clear_active", !.ok = r.ok,
                                                    !.absent = (active_file.kind = "absent")]
    /\ UNCHANGED <<sessions_file, recorded>>

\* The store as SessionStore::new finds it on a first start: no files.
StoreInit ==
    /\ storeMode = "none"
    /\ sessions_file = AbsentSessions
    /\ active_file = AbsentActive
    /\ recorded = <<>>
    /\ marker = Known(None)
    /\ lastStore = NoStoreCall
    /\ nstore = 0

\* The Local client's file as build_local_client leaves it, and the service
\* after LeaderboardState::load found no file.
BoardInit ==
    /\ mode = "none"
    /\ pattern = NoPattern
    /\ nsub = 0
    /\ faults = 0
    /\ sent = <<>>
    /\ boardFile = ValidBoard(<<>>)
    /\ lastCall = NoCall
    /\ svcEntries = <<>>
    /\ svcFile = ValidBoard(<<>>)
    /\ req = [p \in 1..MaxRequests |-> IdleRequest]
    /\ response = NoResponse

-----------------------------------------------------------------------------
(* storage.rs: compute_analytics *)

\* compute_analytics reads a Session's start and duration_minutes only.  Here
\* start is counted in parts of a calendar day, PartsPerDay of them to a day,
\* and duration_minutes is kept as whole seconds, as above.  A sum of minutes
\* is a sum of seconds; the two quotients the function forms are kept exact:
\* the average as the fraction [num, den], the median in half seconds.

\* DateTime::date_naive: the calendar day of an instant.
date_naive(t) == t \div PartsPerDay

\* NaiveDate::iso_week, with day 0 a Monday: (year, week) pairs and the weeks
\* counted from day 0 are ordered alike.
iso_week(day) == day \div 7

Zero == [num |-> 0, den |-> 1]

average_of_at_least_one(sessions) ==
    [num |-> total_seconds(sessions), den |-> Len(sessions)]

\* lines 190-194.
average_session_minutes(sessions) ==
    IF Len(sessions) = 0 THEN Zero
    ELSE [num |-> total_seconds(sessions), den |-> Len(sessions)]

\* durations.sort_by(partial_cmp), line 197.
RECURSIVE InsertAscending(_, _)
InsertAscending(sorted, x) ==
    IF sorted = <<>> THEN <<x>>
    ELSE IF sorted[Len(sorted)] <= x THEN Append(sorted, x)
    ELSE Append(InsertAscending(SubSeq(sorted, 1, Len(sorted) - 1), x), sorted[Len(sorted)])

RECURSIVE sort_ascending(_)
sort_ascending(s) ==
    IF s = <<>> THEN <<>>
    ELSE InsertAscending(sort_ascending(SubSeq(s, 1, Len(s) - 1)), s[Len(s)])

median_upper_middle(sessions) ==
    LET durations == sort_ascending([i \in DOMAIN sessions |-> sessions[i].duration_seconds])
        mid == Len(durations) \div 2
    IN  IF durations = <<>> THEN 0 ELSE 2 * durations[mid + 1]

\* lines 196-207, in half seconds.  Rust indexes from 0, TLA+ from 1.
median_session_minutes(sessions) ==
    LET durations == sort_ascending([i \in DOMAIN sessions |-> sessions[i].duration_seconds])
        mid == Len(durations) \div 2
    IN  IF durations = <<>> THEN 0
        ELSE IF Len(durations) % 2 = 0 THEN durations[mid] + durations[mid + 1]
        ELSE 2 * durations[mid + 1]

\* lines 209-213: the BTreeMap from a day to the minutes of the sessions that
\* started on it, as a function on the days that have a session.
OnDay(sessions, day) == SelectSeq(sessions, LAMBDA s : date_naive(s.start) = day)

daily_totals(sessions) ==
    [day \in {date_naive(sessions[i].start) : i \in DOMAIN sessions}
        |-> total_seconds(OnDay(sessions, day))]

RECURSIVE SumOver(_, _)
SumOver(map, keys) ==
    IF keys = {} THEN 0
    ELSE LET k == CHOOSE k \in keys : TRUE IN map[k] + SumOver(map, keys \ {k})

\* lines 215-219.
weekly_totals(daily) ==
    [week \in {iso_week(day) : day \in DOMAIN daily}
        |-> SumOver(daily, {day \in DOMAIN daily : iso_week(day) = week})]

\* BTreeMap::iter: the (key, value) pairs by ascending key.
RECURSIVE KeysAscending(_)
KeysAscending(keys) ==
    IF keys = {} THEN <<>>
    ELSE LET k == CHOOSE k \in keys : \A other \in keys : k <= other
         IN  <<k>> \o KeysAscending(keys \ {k})

iter(map) ==
    LET keys == KeysAscending(DOMAIN map)
    IN  [i \in DOMAIN keys |-> <<keys[i], map[keys[i]]>>]

\* Iterator::rev.
rev(list) == [i \in DOMAIN list |-> list[Len(list) + 1 - i]]

\* Iterator::take and Vec::truncate.
take(list, n) == IF Len(list) <= n THEN list ELSE SubSeq(list, 1, n)

\* top_days.sort_by(|a, b| b.1.partial_cmp(&a.1)), line 231: stable, by
\* descending minutes.
RECURSIVE InsertByMinutesDesc(_, _)
InsertByMinutesDesc(sorted, x) ==
    IF sorted = <<>> THEN <<x>>
    ELSE IF sorted[Len(sorted)][2] >= x[2] THEN Append(sorted, x)
    ELSE Append(InsertByMinutesDesc(SubSeq(sorted, 1, Len(sorted) - 1), x),
                sorted[Len(sorted)])

RECURSIVE sort_by_minutes_desc(_)
sort_by_minutes_desc(s) ==
    IF s = <<>> THEN <<>>
    ELSE InsertByMinutesDesc(sort_by_minutes_desc(SubSeq(s, 1, Len(s) - 1)), s[Len(s)])

\* lines 249-258: the filter keeps every day not before `from`.
minutes_since(daily, from) == SumOver(daily, {day \in DOMAIN daily : day >= from})

\* first_day and last_day, lines 260-261.
first_key(map) == IF DOMAIN map = {} THEN None ELSE Some(iter(map)[1][1])
last_key(map) == IF DOMAIN map = {} THEN None ELSE Some(rev(iter(map))[1][1])

\* compute_analytics, with Local::now().date_naive() (line 248) as `today`.
compute_analytics(sessions, today) ==
    LET daily == daily_totals(sessions)
        weekly == weekly_totals(daily)
    IN  [total_sessions |-> Len(sessions),
         total_minutes |-> total_seconds(sessions),
         average_session_minutes |-> average_session_minutes(sessions),
         median_session_minutes |-> median_session_minutes(sessions),
         minutes_last_7 |-> minutes_since(daily, today - Last7Back),
         minutes_last_30 |-> minutes_since(daily, today - Last30Back),
         top_days |-> take(sort_by_minutes_desc(iter(daily)), TopDaysCap),
         recent_sessions |-> take(rev(sort_by_start(sessions)), RecentSessionsCap),
         recent_daily |-> take(rev(iter(daily)), RecentDailyCap),
         recent_weekly |-> take(rev(iter(weekly)), RecentWeeklyCap),
         first_day |-> first_key(daily),
         last_day |-> last_key(daily)]

\* The day the analytics are computed on, and the days the sessions of a
\* history started on: both sides of each window's edge, today, and the day
\* after today (a session recorded before the clock was set back, or in a
\* time zone ahead of today's).
Today == Last30Back + 1
DayOffsets == {-(Last30Back + 1), -Last30Back, -(Last7Back + 1), -Last7Back, 0, 1}
AnalyticsStarts ==
    {(Today + off) * PartsPerDay : off \in DayOffsets}
        \cup {Today * PartsPerDay + (PartsPerDay - 1)}
DurationChoices == {60, 150}
AnalyticsSessions ==
    {[start |-> t, duration_seconds |-> d] : t \in AnalyticsStarts, d \in DurationChoices}
Histories == UNION {[1..n -> AnalyticsSessions] : n \in 0..MaxHistory}

NotComputed == [called |-> FALSE, sessions |-> <<>>, today |-> 0, out |-> None]

\* One call per behaviour: the function keeps nothing from call to call.
call_compute_analytics ==
    /\ ~computed.called
    /\ \E sessions \in Histories :
          computed' = [called |-> TRUE, sessions |-> sessions, today |-> Today,
                       out |-> Some(compute_analytics(sessions, Today))]
    /\ UNCHANGED exported

-----------------------------------------------------------------------------
(* storage.rs: export_csv *)

\* A path is a string as above, with 28 the separator '/' and 29 the dot; 31
\* is the double quote and 32 the single quote.  The paths below are "a",
\* "a.csv", "a.CSV", "a.txt", "a.", ".csv", "d.x/a", "d/a.txt", "a/", "",
\* ".." and "/".
Csv == <<3, 19, 22>>
ExportPaths ==
    { <<1>>, <<1, 29>> \o Csv, <<1, 29, -3, -19, -22>>, <<1, 29, 20, 24, 20>>,
      <<1, 29>>, <<29>> \o Csv, <<4, 29, 24, 28, 1>>, <<4, 28, 1, 29, 20, 24, 20>>,
      <<1, 28>>, <<>>, <<29, 29>>, <<28>> }

\* The last character of the path that is not a separator, and the first
\* character of the component it ends (Path::components skips the separators
\* that trail a path).
NameEnd(path) ==
    IF \A i \in DOMAIN path : path[i] = 28 THEN 0
    ELSE CHOOSE i \in DOMAIN path :
            path[i] # 28 /\ \A j \in DOMAIN path : j > i => path[j] = 28

NameStart(path) ==
    LET seps == {i \in 1..NameEnd(path) : path[i] = 28}
    IN  IF seps = {} THEN 1
        ELSE 1 + CHOOSE i \in seps : \A j \in seps : j <= i

\* Path::file_name: the last component when it is a normal one.
file_name(path) ==
    LET name == SubSeq(path, NameStart(path), NameEnd(path))
    IN  IF NameEnd(path) = 0 \/ name = <<29, 29>> \/ name = <<29>> THEN None
        ELSE Some(name)

\* The last dot of a file name, 0 when it has none.
LastDot(name) ==
    LET dots == {i \in DOMAIN name : name[i] = 29}
    IN  IF dots = {} THEN 0 ELSE CHOOSE i \in dots : \A j \in dots : j <= i

\* Path::extension: what follows the last dot of the file name, when there is
\* a dot and it is not the first character.
extension(path) ==
    IF file_name(path) = None THEN None
    ELSE LET name == Unwrap(file_name(path))
         IN  IF LastDot(name) <= 1 THEN None
             ELSE Some(SubSeq(name, LastDot(name) + 1, Len(name)))

\* Path::file_stem, as the length it has.
StemLen(name) == IF LastDot(name) <= 1 THEN Len(name) ELSE LastDot(name) - 1

\* PathBuf::set_extension with a non-empty extension: nothing when there is no
\* file name, else the path is cut right after the file stem and the dot and
\* the extension are pushed.
set_extension(path, ext) ==
    IF file_name(path) = None THEN path
    ELSE SubSeq(path, 1, NameStart(path) - 1 + StemLen(Unwrap(file_name(path))))
            \o <<29>> \o ext

out_path_any_case(path) ==
    IF extension(path) = None \/ ~eq_ignore_ascii_case(Unwrap(extension(path)), Csv)
    THEN set_extension(path, Csv)
    ELSE path

\* lines 139-142.  OsStr's != is an exact comparison.
out_path(path) ==
    IF extension(path) = None \/ Unwrap(extension(path)) # Csv
    THEN set_extension(path, Csv)
    ELSE path

\* A path that names no file (it is empty, or ends in a separator or in "..")
\* cannot be created, whatever the file system holds.
Creatable(path) == file_name(path) # None /\ path[Len(path)] # 28

\* str::replace('"', "'"), line 147.
replace_quotes(note) == [i \in DOMAIN note |-> IF note[i] = 31 THEN 32 ELSE note[i]]

\* {:.2} of duration_minutes: hundredths of a minute, to the nearest (a whole
\* number of seconds is never half way between two hundredths).
format_2(seconds) == (seconds * 200 + SecondsPerMinute) \div (2 * SecondsPerMinute)

Header == "id,start,end,duration_minutes,note"

\* The line written for a session, lines 148-156, by its fields (the uuid is
\* not modelled).
Row(s) ==
    [start |-> to_rfc3339(s.start), end |-> to_rfc3339(s.end),
     duration_minutes |-> format_2(s.duration_seconds), note |-> replace_quotes(s.note)]

NoFile == [kind |-> "absent", lines |-> <<>>]
Written(lines) == [kind |-> "written", lines |-> lines]

\* export_csv.  `fault` is none, File::create failing, or a writeln! failing
\* after `after` of them succeeded.  The result is Ok((count, path)) or Err, and
\* `file` is what is then at out_path.
export_csv(path, sessions, fault) ==
    LET out == out_path(path)
        lines == <<Header>> \o [i \in DOMAIN sessions |-> Row(sessions[i])]
    IN  IF fault.kind = "create" \/ ~Creatable(out)
        THEN [ok |-> FALSE, count |-> 0, path |-> out, file |-> NoFile]
        ELSE IF fault.kind = "write"
        THEN [ok |-> FALSE, count |-> 0, path |-> out,
              file |-> Written(SubSeq(lines, 1, fault.after))]
        ELSE [ok |-> TRUE, count |-> Len(sessions), path |-> out, file |-> Written(lines)]

\* The sessions exported: one without a note, as the monitor records them,
\* and one whose note holds a quoted word.
ExportSessions ==
    { [start |-> 0, end |-> MinuteUnits, duration_seconds |-> SecondsPerMinute,
       note |-> <<>>],
      [start |-> 1, end |-> 1 + MinuteUnits + UnitsPerSecond,
       duration_seconds |-> SecondsPerMinute + 1, note |-> <<31, 1, 31>>] }
ExportLists == UNION {[1..n -> ExportSessions] : n \in 0..MaxExport}

ExportFaults(sessions) ==
    {[kind |-> k, after |-> 0] : k \in {"none", "create"}}
        \cup {[kind |-> "write", after |-> n] : n \in 0..Len(sessions)}

NotExported == [called |-> FALSE, path |-> <<>>, sessions |-> <<>>, result |-> None]

\* One call per behaviour, to a path where no file is yet.
call_export_csv ==
    /\ ~exported.called
    /\ \E path \in ExportPaths, sessions \in ExportLists :
       \E fault \in ExportFaults(sessions) :
          exported' = [called |-> TRUE, path |-> path, sessions |-> sessions,
                       result |-> Some(export_csv(path, sessions, fault))]
    /\ UNCHANGED computed

ReportInit ==
    /\ computed = NotComputed
    /\ exported = NotExported

-----------------------------------------------------------------------------
(* monitor.rs update_snapshot and dashboard.rs update: the snapshot mutex *)

\* The worker is in a probe, in a SessionStore call, in the poll sleep, in
\* update_snapshot waiting for the lock ("lock"), in the closure that copies
\* the new values ("update"), or has left run ("exited").  The reader (the
\* dashboard's update, once per frame) is between frames, waiting for the
\* lock, cloning the snapshot, rendering from its copy, or in stop_monitor's
\* join.  The snapshot is stood for by the number of the publish that wrote it.
Outside == {"probe", "store", "sleep"}

keep_guard(h) == h

\* The MutexGuard is dropped: at the end of `if let Ok(mut guard)` (monitor.rs
\* lines 168-170), and at the end of the statement that clones (dashboard.rs
\* lines 1940-1944).
drop_guard(h) == "none"

\* run between two update_snapshot calls: probes, store calls and sleeps in
\* any order, then the next update_snapshot, or the end of run once the stop
\* flag is set (line 88).
worker_step ==
    /\ worker.at \in Outside
    /\ \E next \in (Outside \ {worker.at}) \cup {"lock", "exited"} :
          /\ next = "lock" => worker.published < MaxPublishes
          /\ next = "exited" => reader.stopped
          /\ worker' = [worker EXCEPT !.at = next]
    /\ UNCHANGED <<holder, reader, guarded>>

\* snapshot.lock(), line 168: returns once the mutex is free.
worker_lock ==
    /\ worker.at = "lock"
    /\ holder = "none"
    /\ holder' = "worker"
    /\ worker' = [worker EXCEPT !.at = "update"]
    /\ UNCHANGED <<reader, guarded>>

\* update(&mut guard), line 169, and the drop of the guard; after the
\* "Pending resume" publish run breaks out of the loop (lines 91-97).
worker_update ==
    /\ worker.at = "update"
    /\ guarded' = worker.published + 1
    /\ holder' = drop_guard(holder)
    /\ \E next \in {"probe", "sleep", "exited"} :
          /\ next = "exited" => reader.stopped
          /\ worker' = [at |-> next, published |-> worker.published + 1]
    /\ UNCHANGED reader

\* PlaytimeApp::update reaches self.snapshot.lock(), line 1942.
reader_frame ==
    /\ reader.pc = "frame"
    /\ reader.frames < MaxFrames
    /\ reader' = [reader EXCEPT !.pc = "lock"]
    /\ UNCHANGED <<holder, worker, guarded>>

reader_lock ==
    /\ reader.pc = "lock"
    /\ holder = "none"
    /\ holder' = "reader"
    /\ reader' = [reader EXCEPT !.pc = "clone"]
    /\ UNCHANGED <<worker, guarded>>

\* .map(|guard| guard.clone()), line 1943; the guard is a temporary.
reader_clone ==
    /\ reader.pc = "clone"
    /\ holder' = drop_guard(holder)
    /\ reader' = [reader EXCEPT !.pc = "render", !.seen = guarded]
    /\ UNCHANGED <<worker, guarded>>

\* The frame is drawn from the copy; a click may call stop_monitor, which sets
\* the stop flag and joins the worker (lines 587-592).
reader_render ==
    /\ reader.pc = "render"
    /\ \/ reader' = [reader EXCEPT !.pc = "frame", !.frames = @ + 1]
       \/ /\ ~reader.stopped
          /\ reader' = [reader EXCEPT !.pc = "join", !.frames = @ + 1, !.stopped = TRUE]
    /\ UNCHANGED <<holder, worker, guarded>>

\* handle.join() returns when run has returned.
reader_join ==
    /\ reader.pc = "join"
    /\ worker.at = "exited"
    /\ reader' = [reader EXCEPT !.pc = "frame"]
    /\ UNCHANGED <<holder, worker, guarded>>

LockInit ==
    /\ holder = "none"
    /\ worker = [at |-> "store", published |-> 0]
    /\ reader = [pc |-> "frame", seen |-> 0, frames |-> 0, stopped |-> FALSE]
    /\ guarded = 0

-----------------------------------------------------------------------------
(* The readers of the stored lists: dashboard.rs refresh_sessions and the
   FetchOnly job, leaderboard_server.rs LeaderboardState::load *)

\* What the files read may hold.
ReadSessions == {Session_new(0, MinuteUnits), Session_new(1, 1)}
SessionFiles ==
    {AbsentSessions, CorruptSessions}
        \cup {ValidSessions(list) : list \in UNION {[1..n -> ReadSessions] : n \in 0..MaxRead}}
ReadEntries == {[username |-> <<1>>, total_minutes |-> 1],
                [username |-> <<2>>, total_minutes |-> 2]}
BoardLists == UNION {[1..n -> ReadEntries] : n \in 0..MaxRead}
BoardFiles == {CorruptBoard} \cup {ValidBoard(list) : list \in BoardLists}
AbsentBoard == [kind |-> "absent", data |-> <<>>]

NoRead == [consumer |-> "none", kind |-> "absent", failed |-> FALSE,
           before |-> <<>>, wrote |-> TRUE, n |-> 0]

on_load_error_keeping(view, message) == [view EXCEPT !.status_message = Some(message)]

\* dashboard.rs lines 549-554: the Err arm of refresh_sessions.
on_load_error(view, message) ==
    [view EXCEPT !.sessions = <<>>, !.analytics = None, !.status_message = Some(message)]

\* PlaytimeApp::refresh_sessions, lines 542-557, on the fields it sets.
PlaytimeApp_refresh_sessions ==
    /\ lastRead.n < MaxReadCalls
    /\ \E file \in SessionFiles, readErr \in BOOLEAN :
          LET r == load_sessions(file, readErr) IN
          /\ dash' = IF r.ok
                     THEN [dash EXCEPT !.sessions = sort_by_start(r.val),
                                       !.analytics = Some(total_seconds(r.val))]
                     ELSE on_load_error(dash, "Failed to load sessions")
          /\ lastRead' = [consumer |-> "sessions", kind |-> file.kind, failed |-> ~r.ok,
                          before |-> <<>>, wrote |-> TRUE, n |-> lastRead.n + 1]
    /\ UNCHANGED svc

\* A FetchOnly job with the Local client, from the thread (lines 838-844,
\* fetch_top_entries is read_local_entries) to poll_leaderboard_updates
\* taking its outcome (lines 868-879).
fetch_only_job ==
    /\ lastRead.n < MaxReadCalls
    /\ \E file \in BoardFiles, readErr \in BOOLEAN :
          LET r == read_local_entries(file, readErr) IN
          /\ dash' = IF r.ok
                     THEN [dash EXCEPT !.leaderboard_entries = r.val]
                     ELSE [dash EXCEPT !.status_message =
                                          Some("Failed to refresh leaderboard entries")]
          /\ lastRead' = [consumer |-> "leaderboard", kind |-> file.kind,
                          failed |-> ~r.ok, before |-> dash.leaderboard_entries,
                          wrote |-> TRUE, n |-> lastRead.n + 1]
    /\ UNCHANGED svc

\* LeaderboardState::load, lines 26-69: a file that cannot be read or parsed
\* is reported on stderr and stands for an empty list; the list is then
\* written back, and load fails when that write fails.
LeaderboardState_load ==
    /\ svc.state = "down"
    /\ lastRead.n < MaxReadCalls
    /\ \E file \in BoardFiles \cup {AbsentBoard}, readErr \in BOOLEAN, writeErr \in BOOLEAN :
          LET exists == file.kind # "absent"
              r == read_local_entries(file, readErr)
              entries == IF exists /\ r.ok THEN truncate(sort_by_total_desc(r.val))
                         ELSE <<>>
          IN  /\ svc' = [state |-> IF writeErr THEN "failed" ELSE "up",
                         entries |-> entries,
                         logged |-> exists /\ ~r.ok]
              /\ lastRead' = [consumer |-> "service", kind |-> file.kind,
                              failed |-> exists /\ ~r.ok, before |-> <<>>,
                              wrote |-> ~writeErr, n |-> lastRead.n + 1]
    /\ UNCHANGED dash

ReadInit ==
    /\ dash = [sessions |-> <<>>, analytics |-> None, leaderboard_entries |-> <<>>,
               status_message |-> None]
    /\ svc = [state |-> "down", entries |-> <<>>, logged |-> FALSE]
    /\ lastRead = NoRead

-----------------------------------------------------------------------------
(* dashboard.rs: start_monitor and stop_monitor *)

\* The AtomicBool PlaytimeApp::new creates (line 478), before any worker.
FirstFlag == 0

\* handle.join() returns once the worker's thread has finished (its run has
\* returned, with Ok or Err, or it has panicked).
join_detached(w, live) == TRUE

join_returns(w, live) == w \notin live

\* start_monitor is called: by PlaytimeApp::new (line 536) and by
\* apply_monitor_settings (line 977).  Its first statement is stop_monitor().
start_monitor ==
    /\ dpc.at = "idle"
    /\ Cardinality(DOMAIN flags) <= MaxStarts
    /\ dpc' = [at |-> "store", then |-> "spawn"]
    /\ UNCHANGED <<stop_flag, flags, monitor_handle, alive, inStore, observed>>

\* Drop for PlaytimeApp (line 1971): stop_monitor().
PlaytimeApp_drop ==
    /\ dpc.at = "idle"
    /\ dpc' = [at |-> "store", then |-> "dropped"]
    /\ UNCHANGED <<stop_flag, flags, monitor_handle, alive, inStore, observed>>

\* stop_monitor, line 588: self.stop_flag.store(true, SeqCst).
stop_flag_store ==
    /\ dpc.at = "store"
    /\ flags' = [flags EXCEPT ![stop_flag] = TRUE]
    /\ dpc' = [dpc EXCEPT !.at = "join"]
    /\ UNCHANGED <<stop_flag, monitor_handle, alive, inStore, observed>>

\* stop_monitor, lines 589-591: take the handle and join it, if there is one.
handle_join ==
    /\ dpc.at = "join"
    /\ \A w \in monitor_handle : join_returns(w, alive)
    /\ monitor_handle' = None
    /\ dpc' = [dpc EXCEPT !.at = dpc.then]
    /\ UNCHANGED <<stop_flag, flags, alive, inStore, observed>>

\* start_monitor, lines 561-572: a new AtomicBool(false), and a thread that
\* runs Monitor::run with a clone of it.
spawn_worker ==
    /\ dpc.at = "spawn"
    /\ LET w == Cardinality(DOMAIN flags) IN
          /\ flags' = [f \in DOMAIN flags \cup {w} |-> IF f = w THEN FALSE ELSE flags[f]]
          /\ stop_flag' = w
          /\ monitor_handle' = Some(w)
          /\ alive' = alive \cup {w}
    /\ dpc' = [at |-> "idle", then |-> "idle"]
    /\ UNCHANGED <<inStore, observed>>

\* A worker enters a file operation of SessionStore (load_active, save_active,
\* append_session, clear_active): at startup or in a poll tick whose stop
\* check (line 88) read false.  A stop that is observed with a session open
\* still writes the marker (line 90).
worker_store_enter ==
    /\ \E w \in alive \ inStore : inStore' = inStore \cup {w}
    /\ UNCHANGED <<dpc, stop_flag, flags, monitor_handle, alive, observed>>

worker_store_leave ==
    /\ \E w \in inStore : inStore' = inStore \ {w}
    /\ UNCHANGED <<dpc, stop_flag, flags, monitor_handle, alive, observed>>

\* line 88: the worker reads its stop flag at the head of the loop, as true.
worker_observe_stop ==
    /\ \E w \in alive \ (inStore \cup observed) :
          /\ flags[w]
          /\ observed' = observed \cup {w}
    /\ UNCHANGED <<dpc, stop_flag, flags, monitor_handle, alive, inStore>>

\* The worker's thread finishes: run has observed its stop flag and, after
\* the save of line 90 if a session was open, left the loop (lines 88-98); or
\* it has returned an error.
worker_finish ==
    /\ \E w \in alive \ inStore :
          /\ \E failed \in BOOLEAN : failed \/ w \in observed
          /\ alive' = alive \ {w}
    /\ UNCHANGED <<dpc, stop_flag, flags, monitor_handle, inStore, observed>>

HandleInit ==
    /\ dpc = [at |-> "idle", then |-> "idle"]
    /\ stop_flag = FirstFlag
    /\ flags = [f \in {FirstFlag} |-> FALSE]
    /\ monitor_handle = None
    /\ alive = {}
    /\ inStore = {}
    /\ observed = {}

\* Beside an action of PlaytimeApp: what the last load_sessions that
\* succeeded gave.  analytics is Some exactly when the last load succeeded.
track_load == loaded_total' = IF analytics' # None THEN analytics' ELSE loaded_total

\* The monitor is Tracking, between two poll ticks.
Tracking == active # None /\ pc \in {"sleep", "check", "probe"}

\* What a reset leaves in `dropped`: the start of the interval the monitor is
\* tracking, for the first reset that succeeds while it is Tracking.
track_reset(ok) ==
    dropped' = IF ok /\ Tracking /\ dropped = None THEN Some(Unwrap(active).start)
               ELSE dropped

\* main.rs reset_active, the ResetActive command run in another process while
\* the monitor runs: SessionStore::new()?, store.clear_active()?.
reset_active ==
    /\ \E removeErr \in BOOLEAN :
          LET r == clear_active(activeFile, removeErr) IN
          /\ activeFile' = r.file
          /\ track_reset(r.ok)
    /\ UNCHANGED <<pc, stop, active, session, finCtx, saved, now, min_session_minutes,
                   sessionsFile, snapshot, clock>>
    /\ UNCHANGED <<historyVars, syncVars, loaded_total>>

\* PlaytimeApp::reset_active, the dashboard's button: clear_active, and
\* refresh_sessions when it succeeded.
PlaytimeApp_reset_active ==
    /\ constructed
    /\ \E removeErr \in BOOLEAN, readErr \in BOOLEAN :
          LET r == clear_active(activeFile, removeErr) IN
          /\ activeFile' = r.file
          /\ track_reset(r.ok)
          /\ analytics' = IF r.ok THEN refreshed_analytics(sessionsFile, readErr)
                          ELSE analytics
    /\ track_load
    /\ UNCHANGED <<pc, stop, active, session, finCtx, saved, now, min_session_minutes,
                   sessionsFile, snapshot, clock>>
    /\ UNCHANGED <<constructed, settings, leaderboard_client, leaderboard_entries,
                   leaderboard_rx, leaderboard_inflight, last_leaderboard_attempt,
                   last_leaderboard_success, threads, mailbox, nextJob, nextClient>>
    /\ UNCHANGED historyVars

DashboardInit == HandleInit /\ loaded_total = None /\ dropped = None

AuxInit == ReportInit /\ LockInit /\ ReadInit /\ DashboardInit

-----------------------------------------------------------------------------
(* Specifications *)

Init == MonitorInit /\ SyncInit /\ BoardInit /\ ClientInit /\ StoreInit /\ AuxInit

MonitorActions ==
    \/ SessionStore_new
    \/ restore_active
    \/ update_snapshot
    \/ startup_probe
    \/ finalize_short
    \/ finalize_append
    \/ finalize_clear
    \/ stop_check
    \/ stop_save
    \/ poll_tick
    \/ tick_save_active
    \/ sleep

Next ==
    \/ Monitor_run /\ UNCHANGED <<syncVars, boardVars, clientVars, storeVars, auxVars>>
    \/ stop_monitor /\ UNCHANGED <<syncVars, boardVars, clientVars, storeVars, auxVars>>
    \/ SessionStore_new /\ UNCHANGED <<syncVars, boardVars, clientVars, storeVars, auxVars>>
    \/ restore_active /\ UNCHANGED <<syncVars, boardVars, clientVars, storeVars, auxVars>>
    \/ update_snapshot /\ UNCHANGED <<syncVars, boardVars, clientVars, storeVars, auxVars>>
    \/ startup_probe /\ UNCHANGED <<syncVars, boardVars, clientVars, storeVars, auxVars>>
    \/ finalize_short /\ UNCHANGED <<syncVars, boardVars, clientVars, storeVars, auxVars>>
    \/ finalize_append /\ UNCHANGED <<syncVars, boardVars, clientVars, storeVars, auxVars>>
    \/ finalize_clear /\ UNCHANGED <<syncVars, boardVars, clientVars, storeVars, auxVars>>
    \/ stop_check /\ UNCHANGED <<syncVars, boardVars, clientVars, storeVars, auxVars>>
    \/ stop_save /\ UNCHANGED <<syncVars, boardVars, clientVars, storeVars, auxVars>>
    \/ poll_tick /\ UNCHANGED <<syncVars, boardVars, clientVars, storeVars, auxVars>>
    \/ tick_save_active /\ UNCHANGED <<syncVars, boardVars, clientVars, storeVars, auxVars>>
    \/ sleep /\ UNCHANGED <<syncVars, boardVars, clientVars, storeVars, auxVars>>

Spec == Init /\ [][Next]_vars

\* The monitor of a process that finds the marker of an earlier one.
InitRecovering ==
    /\ MonitorStart(ValidActive(LeftMarker))
    /\ SyncInit /\ BoardInit /\ ClientInit /\ StoreInit /\ AuxInit

RecoverNext ==
    \/ Monitor_run_after_stop
           /\ UNCHANGED <<syncVars, boardVars, clientVars, storeVars, auxVars>>
    \/ stop_monitor /\ UNCHANGED <<syncVars, boardVars, clientVars, storeVars, auxVars>>
    \/ MonitorActions /\ UNCHANGED <<syncVars, boardVars, clientVars, storeVars, auxVars>>

RecoverSpec == InitRecovering /\ [][RecoverNext]_vars

\* The dashboard alone: the leaderboard sync, with the monitor left out.
\* The monitor over its runs, each of which may be killed at any point.
CrashNext ==
    \/ Next
    \/ crash /\ UNCHANGED <<syncVars, boardVars, clientVars, storeVars, auxVars>>

CrashSpec == Init /\ [][CrashNext]_vars

SyncSpec == Init /\ [][SyncNext]_vars

BoardNext ==
    \/ local_submit /\ UNCHANGED <<monitorVars, historyVars, syncVars, clientVars, storeVars, auxVars>>
    \/ local_run_submit /\ UNCHANGED <<monitorVars, historyVars, syncVars, clientVars, storeVars, auxVars>>
    \/ submit_handler /\ UNCHANGED <<monitorVars, historyVars, syncVars, clientVars, storeVars, auxVars>>
    \/ submit_handler_run /\ UNCHANGED <<monitorVars, historyVars, syncVars, clientVars, storeVars, auxVars>>
    \/ (\E p \in 1..MaxRequests : LeaderboardState_submit(p))
          /\ UNCHANGED <<monitorVars, historyVars, syncVars, clientVars, storeVars, auxVars>>
    \/ (\E p \in 1..MaxRequests : persist_serialize(p))
          /\ UNCHANGED <<monitorVars, historyVars, syncVars, clientVars, storeVars, auxVars>>
    \/ (\E p \in 1..MaxRequests : persist_write(p))
          /\ UNCHANGED <<monitorVars, historyVars, syncVars, clientVars, storeVars, auxVars>>

\* The start of the behaviours in which no monitor runs: one value of its
\* min_session_minutes stands for all.
InitUnmonitored == Init /\ min_session_minutes = 0

\* The leaderboard stores alone: the Local client's file and the service.
BoardSpec == InitUnmonitored /\ [][BoardNext]_vars

\* The construction of a leaderboard client and its Remote submissions.
ClientNext ==
    \/ LeaderboardClient_auto
           /\ UNCHANGED <<monitorVars, historyVars, syncVars, boardVars, storeVars, auxVars>>
    \/ remote_submit
           /\ UNCHANGED <<monitorVars, historyVars, syncVars, boardVars, storeVars, auxVars>>

ClientSpec == InitUnmonitored /\ [][ClientNext]_vars

\* The SessionStore alone, called as the monitor and the dashboard call it.
StoreNext ==
    \/ append_session
           /\ UNCHANGED <<monitorVars, historyVars, syncVars, boardVars, clientVars, auxVars>>
    \/ call_load_sessions
           /\ UNCHANGED <<monitorVars, historyVars, syncVars, boardVars, clientVars, auxVars>>
    \/ call_save_active
           /\ UNCHANGED <<monitorVars, historyVars, syncVars, boardVars, clientVars, auxVars>>
    \/ call_load_active
           /\ UNCHANGED <<monitorVars, historyVars, syncVars, boardVars, clientVars, auxVars>>
    \/ call_clear_active
           /\ UNCHANGED <<monitorVars, historyVars, syncVars, boardVars, clientVars, auxVars>>

StoreSpec == InitUnmonitored /\ [][StoreNext]_vars

\* compute_analytics over the histories it can be handed.
AnalyticsNext ==
    \/ call_compute_analytics
           /\ UNCHANGED <<monitorVars, historyVars, syncVars, boardVars, clientVars, storeVars,
                          lockVars, readVars, dashboardVars>>

AnalyticsSpec == InitUnmonitored /\ [][AnalyticsNext]_vars

\* export_csv over paths, session lists and I/O failures.
ExportNext ==
    \/ call_export_csv
           /\ UNCHANGED <<monitorVars, historyVars, syncVars, boardVars, clientVars, storeVars,
                          lockVars, readVars, dashboardVars>>

ExportSpec == InitUnmonitored /\ [][ExportNext]_vars

\* The monitor worker and the dashboard's update around the snapshot mutex.
Elsewhere ==
    UNCHANGED <<monitorVars, historyVars, syncVars, boardVars, clientVars, storeVars,
                reportVars, readVars, dashboardVars>>

LockNext ==
    \/ worker_step /\ Elsewhere
    \/ worker_lock /\ Elsewhere
    \/ worker_update /\ Elsewhere
    \/ reader_frame /\ Elsewhere
    \/ reader_lock /\ Elsewhere
    \/ reader_clone /\ Elsewhere
    \/ reader_render /\ Elsewhere
    \/ reader_join /\ Elsewhere

LockSpec == InitUnmonitored /\ [][LockNext]_vars

\* The reads of the stored lists, each of a file in any condition.
ReadNext ==
    \/ PlaytimeApp_refresh_sessions
           /\ UNCHANGED <<monitorVars, historyVars, syncVars, boardVars, clientVars, storeVars,
                          reportVars, lockVars, dashboardVars>>
    \/ fetch_only_job
           /\ UNCHANGED <<monitorVars, historyVars, syncVars, boardVars, clientVars, storeVars,
                          reportVars, lockVars, dashboardVars>>
    \/ LeaderboardState_load
           /\ UNCHANGED <<monitorVars, historyVars, syncVars, boardVars, clientVars, storeVars,
                          reportVars, lockVars, dashboardVars>>

ReadSpec == InitUnmonitored /\ [][ReadNext]_vars

\* The dashboard starting, restarting and dropping its monitor worker.
BesideWorkers ==
    UNCHANGED <<monitorVars, historyVars, syncVars, boardVars, clientVars, storeVars,
                reportVars, lockVars, readVars, ghostVars>>

WorkersNext ==
    \/ start_monitor /\ BesideWorkers
    \/ PlaytimeApp_drop /\ BesideWorkers
    \/ stop_flag_store /\ BesideWorkers
    \/ handle_join /\ BesideWorkers
    \/ spawn_worker /\ BesideWorkers
    \/ worker_store_enter /\ BesideWorkers
    \/ worker_store_leave /\ BesideWorkers
    \/ worker_observe_stop /\ BesideWorkers
    \/ worker_finish /\ BesideWorkers

WorkersSpec == InitUnmonitored /\ [][WorkersNext]_vars

\* The dashboard with its monitor worker: one run of the monitor of up to
\* MaxAppTicks poll ticks beside the dashboard's refresh and its leaderboard
\* sync jobs, whose submit and fetch fail or succeed and which finish at any
\* time or not at all.  The minimum session length is 0 (every interval is
\* recorded) or the largest one.
InitApp == Init /\ min_session_minutes \in {0, MaxMinSession}

BesideSync == UNCHANGED <<syncVars, boardVars, clientVars, storeVars, auxVars>>
BesideMonitor == UNCHANGED <<monitorVars, historyVars, boardVars, clientVars, storeVars, auxVars>>

AppNext ==
    \/ Monitor_run /\ runs = 0 /\ BesideSync
    \/ stop_monitor /\ BesideSync
    \/ SessionStore_new /\ BesideSync
    \/ restore_active /\ BesideSync
    \/ update_snapshot /\ BesideSync
    \/ startup_probe /\ BesideSync
    \/ finalize_short /\ BesideSync
    \/ finalize_append /\ BesideSync
    \/ finalize_clear /\ BesideSync
    \/ stop_check /\ nticks < MaxAppTicks /\ BesideSync
    \/ stop_save /\ BesideSync
    \/ poll_tick /\ BesideSync
    \/ tick_save_active /\ BesideSync
    \/ sleep /\ BesideSync
    \/ PlaytimeApp_new /\ BesideMonitor
    \/ refresh_sessions /\ BesideMonitor
    \/ maybe_sync_leaderboard /\ BesideMonitor
    \/ poll_leaderboard_updates /\ BesideMonitor
    \/ sync_thread /\ BesideMonitor

AppSpec == InitApp /\ [][AppNext]_vars

\* The same, with the "sync now" button, and with the total of the last
\* successful load kept beside every step of the dashboard.
BesideDashboard ==
    /\ UNCHANGED <<monitorVars, historyVars, boardVars, clientVars, storeVars,
                   reportVars, lockVars, readVars, handleVars, dropped>>
    /\ track_load

SubmitNext ==
    \/ Monitor_run /\ runs = 0 /\ BesideSync
    \/ SessionStore_new /\ BesideSync
    \/ restore_active /\ BesideSync
    \/ update_snapshot /\ BesideSync
    \/ startup_probe /\ BesideSync
    \/ finalize_append /\ BesideSync
    \/ finalize_clear /\ BesideSync
    \/ stop_check /\ nticks < MaxAppTicks /\ BesideSync
    \/ poll_tick /\ BesideSync
    \/ tick_save_active /\ BesideSync
    \/ sleep /\ BesideSync
    \/ PlaytimeApp_new /\ BesideDashboard
    \/ refresh_sessions /\ BesideDashboard
    \/ maybe_sync_leaderboard /\ BesideDashboard
    \/ force_leaderboard_sync /\ BesideDashboard
    \/ poll_leaderboard_updates /\ BesideDashboard
    \/ sync_thread /\ BesideDashboard

SubmitSpec == InitUnmonitored /\ [][SubmitNext]_vars

\* One run of the monitor, with the active marker cleared from outside at any
\* moment: by the ResetActive command or by the dashboard's button.
BesideStore ==
    UNCHANGED <<boardVars, clientVars, storeVars, reportVars, lockVars, readVars, handleVars>>

ResetNext ==
    \/ Monitor_run /\ runs = 0 /\ BesideSync
    \/ SessionStore_new /\ BesideSync
    \/ restore_active /\ BesideSync
    \/ update_snapshot /\ BesideSync
    \/ startup_probe /\ BesideSync
    \/ finalize_append /\ BesideSync
    \/ finalize_clear /\ BesideSync
    \/ stop_check /\ nticks < MaxAppTicks /\ BesideSync
    \/ poll_tick /\ BesideSync
    \/ tick_save_active /\ BesideSync
    \/ sleep /\ BesideSync
    \/ PlaytimeApp_new /\ BesideDashboard
    \/ reset_active /\ BesideStore
    \/ PlaytimeApp_reset_active /\ BesideStore

ResetSpec == InitUnmonitored /\ [][ResetNext]_vars

\* The sync jobs with threads that may also die, the dashboard polling every
\* frame and every thread coming to its end (the HTTP client has a timeout).
BesideApp == UNCHANGED <<monitorVars, historyVars, boardVars, clientVars, storeVars, auxVars>>

PollStep == poll_leaderboard_updates /\ BesideApp
ThreadStep == (sync_thread \/ sync_thread_dies) /\ BesideApp

PollNext ==
    \/ PlaytimeApp_new /\ BesideApp
    \/ maybe_sync_leaderboard /\ BesideApp
    \/ force_leaderboard_sync /\ BesideApp
    \/ apply_leaderboard_settings /\ BesideApp
    \/ poll_leaderboard_updates /\ BesideApp
    \/ sync_thread /\ BesideApp
    \/ sync_thread_dies /\ BesideApp

PollSpec == InitUnmonitored /\ [][PollNext]_vars /\ WF_vars(PollStep) /\ WF_vars(ThreadStep)

MonitorStep == MonitorActions /\ UNCHANGED <<syncVars, boardVars, clientVars, storeVars, auxVars>>

\* The worker thread is scheduled: a step of run that can be taken is taken.
FairSpec == Spec /\ WF_vars(MonitorStep)


-----------------------------------------------------------------------------
(* Properties of Monitor::run *)

\* Between two poll ticks of a run that is still going, or after its stop
\* handling: no poll tick is half done.
BetweenTicks == pc \in {"check", "probe", "sleep", "stop_save", "pub_stop", "exited"}

\* tk[i..j] is a maximal run of consecutive true ticks that a false tick ended.
IsEndedTrueRun(tk, i, j) ==
    /\ i <= j
    /\ \A k \in i..j : tk[k].running
    /\ (i = 1 \/ ~tk[i - 1].running)
    /\ j < Len(tk)
    /\ ~tk[j + 1].running

\* The <<first tick, last tick>> of the ended true-runs that span the minimum.
RunsToRecord(tk, min) ==
    { <<tk[p[1]].t, tk[p[2]].t>> :
        p \in { q \in (1..Len(tk)) \X (1..Len(tk)) :
                  /\ IsEndedTrueRun(tk, q[1], q[2])
                  /\ tk[q[2]].t - tk[q[1]].t >= min * MinuteUnits } }

Intervals(list) == { <<list[k].start, list[k].end>> : k \in DOMAIN list }

\* C1: in a run that started without a persisted marker and has not been cut
\* short by an error, the Sessions appended so far are exactly the ended
\* maximal true-runs whose span from first to last true tick is at least
\* min_session_minutes, each with start and end at the run's first and last
\* true tick, each appended once.
C1_SessionsAreTheLongTrueRuns ==
    (BetweenTicks /\ loaded = None)
        => /\ Intervals(appended) = RunsToRecord(ticks, min_session_minutes)
           /\ Len(appended) = Cardinality(RunsToRecord(ticks, min_session_minutes))
           /\ \A k \in DOMAIN appended :
                 \E n \in DOMAIN sessionsFile.data : sessionsFile.data[n] = appended[k]

\* A true-run whose span is exactly the minimum has been recorded.
C1_Witness ==
    /\ pc = "sleep"
    /\ loaded = None
    /\ min_session_minutes = 1
    /\ Len(appended) = 1
    /\ appended[1].end - appended[1].start = min_session_minutes * MinuteUnits


\* This run's startup found a marker and the probe said not running.
RecoveredAtStartup == startupProbe \in {"recovering", "recorded", "discarded"}

\* Startup is over and no poll tick has been admitted yet.
BeforeFirstTick == pc = "check" /\ ticks = <<>>

\* C2: after a startup that discarded a too short persisted marker (probe not
\* running), the monitor is Idle with no active session: before the first
\* poll tick the marker is absent and neither run nor the snapshot holds an
\* active session, and from then on no marker, no in-memory ActiveSession and
\* no Session of this run carries the discarded start.
C2_DiscardedMarkerNeverReturns ==
    startupProbe = "discarded"
        => /\ BeforeFirstTick
                => /\ activeFile = AbsentActive
                   /\ active = None
                   /\ snapshot.active_session = None
           /\ \A a \in activeFile.data : a.start # Unwrap(loaded).start
           /\ \A a \in active : a.start # Unwrap(loaded).start
           /\ \A k \in DOMAIN appended : appended[k].start # Unwrap(loaded).start

\* C3: a startup that finds a marker (s, h) with h - s at least the minimum
\* while the probe says not running has, before the first poll tick, appended
\* exactly one Session, from s to h, cleared the marker and published that
\* Session as last session with status Idle and no active session.
C3_StartupRecoversUpToHeartbeat ==
    (/\ BeforeFirstTick
     /\ RecoveredAtStartup
     /\ Unwrap(loaded).last_seen - Unwrap(loaded).start >= min_session_minutes * MinuteUnits)
        => /\ Len(appended) = 1
           /\ appended[1].start = Unwrap(loaded).start
           /\ appended[1].end = Unwrap(loaded).last_seen
           /\ \E n \in DOMAIN sessionsFile.data : sessionsFile.data[n] = appended[1]
           /\ activeFile = AbsentActive
           /\ active = None
           /\ snapshot = [status_text |-> "Idle", active_session |-> None,
                          last_session |-> Some(appended[1])]

\* A marker spanning the minimum of one minute was recovered some time after
\* its last heartbeat.
C3_Witness ==
    /\ BeforeFirstTick
    /\ startupProbe = "recorded"
    /\ min_session_minutes = 1
    /\ clock > Unwrap(loaded).last_seen

NoFalseTickYet == \A k \in DOMAIN ticks : ticks[k].running

FirstFalseTick ==
    /\ ticks # <<>>
    /\ ~ticks[Len(ticks)].running
    /\ \A k \in 1..(Len(ticks) - 1) : ticks[k].running

\* C4: a startup that finds a marker while the probe says running goes on
\* Tracking with it: nothing is appended at startup, the start is kept over
\* the following true ticks, and the interval finalized at the first false
\* tick starts at the persisted start.
C4_StartupResumesPersistedSession ==
    startupProbe = "running"
        => /\ BeforeFirstTick
                => (appended = <<>> /\ active = loaded /\ snapshot.active_session = loaded
                    /\ snapshot.status_text = "Tracking")
           /\ NoFalseTickYet
                => (appended = <<>> /\ \A a \in active : a.start = Unwrap(loaded).start)
           /\ (FirstFalseTick /\ pc \in {"finalize", "fin_clear"})
                => session.start = Unwrap(loaded).start
           /\ (FirstFalseTick /\ pc \in {"fin_clear", "pub_saved", "sleep"})
                => \A k \in DOMAIN appended : appended[k].start = Unwrap(loaded).start

\* A resumed session went through a heartbeat and was then recorded from the
\* persisted start.
C4_Witness ==
    /\ startupProbe = "running"
    /\ FirstFalseTick
    /\ Len(ticks) >= 2
    /\ pc = "sleep"
    /\ Len(appended) = 1
    /\ appended[1].start = Unwrap(loaded).start

\* C5: when run has exited on a stop request seen while Tracking, the marker
\* on disk equals the in-memory ActiveSession and the session history is what
\* it was when the stop flag was observed.
C5_StopPersistsActiveUnfinalized ==
    (pc = "exited" /\ active # None)
        => /\ activeFile = ValidActive(Unwrap(active))
           /\ sessionsFile = histAtStop

\* Stopped while Tracking, after at least one heartbeat.
C5_Witness ==
    /\ pc = "exited"
    /\ active # None
    /\ Unwrap(active).last_seen > Unwrap(active).start

\* C6: a persistence error during a poll tick (save_active, append_session,
\* clear_active) does not end Monitor::run.
C6_TickIoErrorDoesNotEndRun ==
    ~(pc = "failed" /\ failedAt \in {"tick_save_active", "tick_finalize"})

\* C7: at startup only an unresolvable data location ends Monitor::run; an
\* unreadable marker or a failing recovery finalize does not.
C7_OnlyDataLocationIsFatalAtStartup ==
    (pc = "failed" /\ failedAt \in {"new_store", "load_active", "startup_finalize"})
        => failedAt = "new_store"

\* C8: once the stop flag is set the monitor probes at most one more poll
\* tick, leaves the loop only from its head (never from the middle of a tick),
\* and does end.
C8_StopIsCooperativeAndBounded ==
    /\ [](probesAfterStop <= 1)
    /\ [][pc' = "exited" => pc \in {"check", "pub_stop"}]_vars
    /\ (stop ~> Ended)

\* The flag was set during a tick; that tick was completed and run exited.
C8_Witness ==
    /\ pc = "exited"
    /\ stop
    /\ probesAfterStop = 1

\* C9: after a Tracking + probe-false poll tick, recorded or discarded, the
\* marker is absent, run holds no active session and the snapshot is Idle
\* with no active session; a discard leaves the session history as it was.
C9_FinalizeTickLeavesIdle ==
    (pc = "sleep" /\ branch \in {"saved", "discarded"})
        => /\ activeFile = AbsentActive
           /\ active = None
           /\ snapshot.status_text = "Idle"
           /\ snapshot.active_session = None
           /\ branch = "discarded" => sessionsFile = tickHist

\* A tracked interval was discarded as too short.
C9_Witness ==
    /\ pc = "sleep"
    /\ branch = "discarded"
    /\ Len(ticks) >= 2
    /\ ticks[Len(ticks) - 1].running


-----------------------------------------------------------------------------
(* Properties of the leaderboard sync *)

\* C10: at most one leaderboard sync task is running at any time: a request
\* to start one (periodic, forced, or after a settings change) while an
\* earlier task has not finished starts none.
C10_AtMostOneSyncTask == Cardinality(threads) <= 1

-----------------------------------------------------------------------------
(* Properties of the ranked list *)

\* The list in the Local client's file, when the file parses.
StoredBoard == IF boardFile.kind = "valid" THEN boardFile.data ELSE <<>>

\* C11: after any sequence of submissions with non-blank names, no two stored
\* entries have names that are equal ignoring ASCII case, and a submission
\* whose trimmed name equals a stored name ignoring case adds no entry.
C11_NamesUniqueIgnoringCase ==
    /\ \A i, j \in DOMAIN StoredBoard :
          eq_ignore_ascii_case(StoredBoard[i].username, StoredBoard[j].username) => i = j
    /\ (lastCall.result = "ok" /\ lastCall.stored) => Len(StoredBoard) = lastCall.before

\* C13: for every stored list and every non-blank name and total, applying
\* update_local_entries twice with the same arguments gives the list that
\* applying it once gives.
C13_UpdateIsIdempotent ==
    \A username \in SmallNames, total_minutes \in 0..MaxTotal :
        str_trim(username) # <<>>
            => update_local_entries(
                   update_local_entries(StoredBoard, username, total_minutes),
                   username, total_minutes)
               = update_local_entries(StoredBoard, username, total_minutes)

IsDescending(list) ==
    \A i \in 1..(Len(list) - 1) : list[i].total_minutes >= list[i + 1].total_minutes

\* A long run of distinct names to the Local client in which every call
\* returned Ok and more names were submitted than the list can hold.
LongRunDone == mode = "local_run" /\ Len(sent) = nsub /\ nsub > LeaderboardCap

\* C14: from an empty list, after N > 25 distinct names were submitted once
\* each, the list holds exactly 25 entries, in descending order, each one a
\* submitted (name, total), and no submission left out has a higher total
\* than an entry kept.
C14_TopEntriesKept ==
    LongRunDone
        => /\ boardFile.kind = "valid"
           /\ Len(StoredBoard) = LeaderboardCap
           /\ IsDescending(StoredBoard)
           /\ \A i, j \in DOMAIN StoredBoard :
                 StoredBoard[i].username = StoredBoard[j].username => i = j
           /\ \A i \in DOMAIN StoredBoard :
                 \E k \in DOMAIN sent :
                    /\ sent[k].username = StoredBoard[i].username
                    /\ sent[k].total_minutes = StoredBoard[i].total_minutes
           /\ \A k \in DOMAIN sent :
                 \/ \E i \in DOMAIN StoredBoard : StoredBoard[i].username = sent[k].username
                 \/ \A i \in DOMAIN StoredBoard :
                       StoredBoard[i].total_minutes >= sent[k].total_minutes

\* Rising totals: every name submitted last displaced the lowest entry.
C14_Witness ==
    /\ LongRunDone
    /\ nsub > LeaderboardCap + 1
    /\ pattern = [stride |-> 1, mod |-> MaxNames + 1, dir |-> 1]
    /\ StoredBoard[Len(StoredBoard)].username # RunName(1)

\* A list as the leaderboard stores it: no longer than the cap, highest total
\* first.
IsRanked(list) == Len(list) <= LeaderboardCap /\ IsDescending(list)

AllIdle == \A p \in DOMAIN req : req[p].pc = "idle"

\* C12: in every reachable state the Local client's file, the service's
\* in-memory list and the service's file each hold at most 25 entries,
\* ordered by total_minutes non-increasing.
C12_StoredListsRanked ==
    /\ boardFile.kind = "valid" => IsRanked(boardFile.data)
    /\ IsRanked(svcEntries)
    /\ svcFile.kind = "valid" => IsRanked(svcFile.data)
    /\ \A p \in DOMAIN req : req[p].pc = "writing" => IsRanked(req[p].payload)

\* The service has answered more valid submits with new names than the list
\* holds, with totals that differ, and has persisted the full list.
C12_Witness ==
    /\ mode = "service_run"
    /\ nsub > LeaderboardCap
    /\ AllIdle
    /\ Len(svcEntries) = LeaderboardCap
    /\ svcFile = ValidBoard(svcEntries)
    /\ svcEntries[1].total_minutes > svcEntries[LeaderboardCap].total_minutes

------------------------------------------------------------------------------
(* Properties of the LeaderboardService *)

\* The payloads the service is to reject: a name that is blank after
\* trimming, or a total that is not finite or is negative.
MustReject(username, total_minutes) ==
    \/ str_trim(username) = <<>>
    \/ total_minutes = NotFinite
    \/ total_minutes.val < 0

\* The steps of a submit: it is rejected; it enters LeaderboardState::submit;
\* its update is made; it is answered after its write.
Rejected == nsub' = nsub + 1 /\ req' = req /\ mode' \in {"service", "service_run"}
Entered(p) == req[p].pc = "idle" /\ req'[p].pc = "update"
Updated(p) == req[p].pc = "update" /\ req'[p].pc = "persist"
Answered(p) == req[p].pc = "writing" /\ req'[p].pc = "idle"

\* The list holds `username` with `total_minutes`, or is full of entries that
\* rank at least as high.
Upserted(list, username, total_minutes) ==
    \/ \E i \in DOMAIN list :
          /\ eq_ignore_ascii_case(list[i].username, username)
          /\ list[i].total_minutes = total_minutes
    \/ /\ Len(list) = LeaderboardCap
       /\ \A i \in DOMAIN list : list[i].total_minutes >= total_minutes

RejectedAsClientError ==
    /\ Rejected =>
          /\ MustReject(response'.username, response'.total_minutes)
          /\ response'.status = BAD_REQUEST
          /\ svcEntries' = svcEntries
          /\ svcFile' = svcFile
    /\ \A p \in DOMAIN req :
          Entered(p) => ~MustReject(req'[p].username, req'[p].total_minutes)

UpsertedInMemory ==
    \A p \in DOMAIN req :
        Updated(p) => Upserted(svcEntries', str_trim(req[p].username),
                               req[p].total_minutes.val)

\* C17 as stated: a submit with a blank name or a non-finite or negative total
\* is rejected with a client error and changes neither the list nor the file;
\* every other submit is upserted, persisted and acknowledged with no body.
C17_InvalidRejectedValidAcknowledged ==
    [][/\ RejectedAsClientError
       /\ UpsertedInMemory
       /\ \A p \in DOMAIN req :
             Answered(p) => /\ response'.status = NO_CONTENT
                            /\ svcFile' = ValidBoard(svcEntries')]_vars

\* C17, amended: rejection as stated; every other submit is upserted in
\* memory, and is acknowledged with no body exactly when the rewrite of the
\* file succeeded, the file then holding the in-memory list; when the rewrite
\* failed the submit is answered with a server error and the in-memory list
\* is left as it is.
C17_InvalidRejectedValidAcknowledgedIfPersisted ==
    [][/\ RejectedAsClientError
       /\ UpsertedInMemory
       /\ \A p \in DOMAIN req :
             Answered(p) =>
                 /\ response'.status \in {NO_CONTENT, INTERNAL_SERVER_ERROR}
                 /\ response'.status = NO_CONTENT <=> faults' = faults
                 /\ response'.status = NO_CONTENT => svcFile' = ValidBoard(svcEntries')
                 /\ svcEntries' = svcEntries]_vars

\* A valid submit was answered with a server error after its write failed;
\* its upsert is in memory and not in the file.
C17_Witness ==
    /\ response.status = INTERNAL_SERVER_ERROR
    /\ AllIdle
    /\ Upserted(svcEntries, str_trim(response.username), response.total_minutes.val)
    /\ svcFile # ValidBoard(svcEntries)

\* C18: in every interleaving of concurrent submits, whenever no submit is in
\* progress the persisted file equals the in-memory ranked list.
C18_FileEqualsListWhenIdle == AllIdle => svcFile = ValidBoard(svcEntries)

-----------------------------------------------------------------------------
(* Properties of the leaderboard client *)

\* A candidate resolves when it is set and not blank.
Resolves(candidate) == candidate # None /\ str_trim(Unwrap(candidate)) # <<>>

\* C15: a client constructed without an explicit override is Remote, with the
\* first of these that resolves as its endpoint: PLAYTIME_LEADERBOARD_URL,
\* then LEADERBOARD_DEFAULT_URL, then the hardcoded fallback URL; it is Local
\* only when none of them resolves.
C15_EnvironmentBeforeCompiledDefault ==
    cfg.override = None =>
        /\ lclient.kind = "remote" =>
              lclient.endpoint =
                  IF Resolves(cfg.env) THEN str_trim(Unwrap(cfg.env))
                  ELSE IF Resolves(cfg.baked) THEN str_trim(Unwrap(cfg.baked))
                  ELSE FALLBACK_GLOBAL_ENDPOINT
        /\ lclient.kind # "local"

\* The endpoints a Remote client posts to, in order.
ConfiguredEndpoints ==
    <<lclient.endpoint>>
    \o (IF lclient.secondary = None THEN <<>> ELSE <<Unwrap(lclient.secondary)>>)

FailuresOf(attempts) == SelectSeq(attempts, Failed)

\* C16: a Remote submit with a non-blank name posts the trimmed name and the
\* total to the primary endpoint and then, when one is configured, to the
\* secondary, whatever the primary's outcome; it returns Ok exactly when
\* every post succeeded, otherwise one error naming every failure in order;
\* and each post that succeeded stays delivered.
C16_BothEndpointsAttempted ==
    (lastSubmit.called /\ str_trim(lastSubmit.username) # <<>>) =>
        LET attempts == lastSubmit.attempts
            failures == FailuresOf(attempts)
            successes == SelectSeq(attempts, Succeeded)
        IN  /\ [i \in DOMAIN attempts |-> attempts[i].endpoint] = ConfiguredEndpoints
            /\ \A i \in DOMAIN attempts :
                  attempts[i].payload = [username |-> str_trim(lastSubmit.username),
                                         total_minutes |-> lastSubmit.total_minutes]
            /\ lastSubmit.ok <=> failures = <<>>
            /\ lastSubmit.ok => lastSubmit.error = <<>>
            /\ ~lastSubmit.ok =>
                  /\ Len(lastSubmit.error) = 2 * Len(failures) - 1
                  /\ \A k \in DOMAIN failures :
                        lastSubmit.error[2 * k - 1] = failures[k].outcome
            /\ Len(delivered) = lastSubmit.before + Len(successes)
            /\ \A k \in DOMAIN successes :
                  delivered[lastSubmit.before + k] = successes[k]

\* The primary post failed and the secondary post succeeded: the call
\* returned an error and the secondary's post is delivered.
C16_Witness ==
    /\ lastSubmit.called
    /\ Len(lastSubmit.attempts) = 2
    /\ lastSubmit.attempts[1].outcome = "unreachable"
    /\ lastSubmit.attempts[2].outcome = "ok"
    /\ ~lastSubmit.ok
    /\ lastSubmit.error = <<"unreachable">>
    /\ delivered # <<>>
    /\ delivered[Len(delivered)].endpoint = Unwrap(lclient.secondary)

-----------------------------------------------------------------------------
(* Properties of the SessionStore *)

\* The Sessions sessions.json holds, when it parses.
StoredSessions == Map(Session_from_json, sessions_file.data)

Count(list, x) == Cardinality({i \in DOMAIN list : list[i] = x})

IsAscendingByStart(list) ==
    \A i \in 1..(Len(list) - 1) : list[i].start <= list[i + 1].start

\* C19: after any sequence of append_session calls, a readable sessions.json
\* holds exactly the Sessions whose append returned Ok, each as it was
\* appended and as many times, ordered by start ascending, and load_sessions
\* returns that list.
C19_AppendedSessionsKeptInOrder ==
    /\ sessions_file.kind = "valid" =>
          /\ IsAscendingByStart(StoredSessions)
          /\ Len(StoredSessions) = Len(recorded)
          /\ \A x \in StoreSessions : Count(StoredSessions, x) = Count(recorded, x)
    /\ (lastStore.op = "load_sessions" /\ lastStore.ok) =>
          /\ lastStore.sessions = StoredSessions
          /\ Len(lastStore.sessions) = Len(recorded)
          /\ sessions_file.kind = "absent" <=> recorded = <<>>

\* Three Sessions were appended out of order, two of them with the same start
\* and one not on a whole second, and load_sessions returned all three.
C19_Witness ==
    /\ lastStore.op = "load_sessions"
    /\ lastStore.ok
    /\ Len(lastStore.sessions) = 3
    /\ ~IsAscendingByStart(recorded)
    /\ \E i, j \in DOMAIN recorded : i # j /\ recorded[i].start = recorded[j].start
    /\ \E i \in DOMAIN recorded : recorded[i].start % UnitsPerSecond # 0

\* C20: load_active after a successful save_active(a) returns a value with
\* a's start and last_seen; load_active returns absent when no marker was
\* saved or after clear_active; clear_active on an absent marker returns Ok
\* and leaves it absent.
C20_ActiveMarkerRoundTrip ==
    /\ (lastStore.op = "load_active" /\ marker.known) =>
          /\ lastStore.ok => lastStore.active = marker.val
          /\ marker.val = None => lastStore.ok
    /\ (lastStore.op = "clear_active" /\ lastStore.absent) =>
          /\ lastStore.ok
          /\ active_file = AbsentActive

\* A marker whose start and last_seen fall between whole seconds was saved
\* and then loaded.
C20_Witness ==
    /\ lastStore.op = "load_active"
    /\ lastStore.ok
    /\ marker.known
    /\ \E a \in lastStore.active :
          /\ a.start % UnitsPerSecond # 0
          /\ a.last_seen % UnitsPerSecond # 0
          /\ a.last_seen > a.start

-----------------------------------------------------------------------------
(* Properties of export_csv *)

\* The path ends in ".csv" after a file stem that is not empty.
EndsInDotCsv(path) ==
    /\ Len(path) >= 5
    /\ SubSeq(path, Len(path) - 3, Len(path)) = <<29>> \o Csv
    /\ path[Len(path) - 4] # 28

\* C23: whatever the extension of the path it is given, an export_csv call
\* that returns Ok returns a path whose extension is csv together with the
\* number of sessions it was given, and the file at that path then holds the
\* header line followed by exactly one line per session, in their order.
C23_ExportReturnsCsvPathAndCount ==
    \A r \in exported.result :
        r.ok =>
            /\ EndsInDotCsv(r.path)
            /\ r.count = Len(exported.sessions)
            /\ r.file.kind = "written"
            /\ Len(r.file.lines) = 1 + Len(exported.sessions)
            /\ r.file.lines[1] = Header
            /\ \A i \in DOMAIN exported.sessions :
                  /\ r.file.lines[i + 1].start = to_rfc3339(exported.sessions[i].start)
                  /\ r.file.lines[i + 1].end = to_rfc3339(exported.sessions[i].end)

\* Two sessions were exported to a path with another extension.
C23_Witness ==
    /\ exported.called
    /\ extension(exported.path) \notin {None, Some(Csv)}
    /\ Len(exported.sessions) = 2
    /\ \E r \in exported.result : r.ok /\ r.path # exported.path

-----------------------------------------------------------------------------
(* Properties of compute_analytics *)

\* The seconds of the sessions of a history that started on a day of `days`.
SecondsOn(sessions, days) ==
    total_seconds(SelectSeq(sessions, LAMBDA s : date_naive(s.start) \in days))

\* C24: minutes_last_7 is the sum of the durations of the sessions whose start
\* day d satisfies today - 6 <= d <= today, minutes_last_30 the same with
\* today - 29, and so minutes_last_7 <= minutes_last_30 <= total_minutes.
C24_RollingTotalsCoverTrailingDays ==
    \A a \in computed.out :
        /\ a.minutes_last_7
              = SecondsOn(computed.sessions, (computed.today - 6)..computed.today)
        /\ a.minutes_last_30
              = SecondsOn(computed.sessions, (computed.today - 29)..computed.today)
        /\ a.minutes_last_7 <= a.minutes_last_30
        /\ a.minutes_last_30 <= a.total_minutes

\* C25: on an empty history compute_analytics returns zero sessions, zero
\* total, mean, median and rolling totals, empty lists of top days, recent
\* sessions, recent days and recent weeks, and no first or last day.
C25_EmptyHistoryGivesZeroes ==
    (computed.called /\ computed.sessions = <<>>) =>
        computed.out =
            Some([total_sessions |-> 0, total_minutes |-> 0,
                  average_session_minutes |-> Zero, median_session_minutes |-> 0,
                  minutes_last_7 |-> 0, minutes_last_30 |-> 0,
                  top_days |-> <<>>, recent_sessions |-> <<>>,
                  recent_daily |-> <<>>, recent_weekly |-> <<>>,
                  first_day |-> None, last_day |-> None])

\* The analytics of the empty history were computed.
C25_Witness == computed.called /\ computed.sessions = <<>> /\ computed.out # None

\* The k-th smallest duration of a history, whatever the order it is given in:
\* fewer than k durations lie below it and at least k do not lie above it.
KthDuration(sessions, k) ==
    CHOOSE v \in {sessions[i].duration_seconds : i \in DOMAIN sessions} :
        /\ Cardinality({i \in DOMAIN sessions : sessions[i].duration_seconds < v}) < k
        /\ Cardinality({i \in DOMAIN sessions : sessions[i].duration_seconds <= v}) >= k

\* C26: median_session_minutes is 0 for no sessions, the middle duration in
\* ascending order for an odd number of sessions, and the mean of the two
\* middle durations for an even number, whatever the order the sessions are
\* given in (the model keeps the median in half seconds).
C26_MedianOfDurations ==
    \A a \in computed.out :
        LET n == Len(computed.sessions)
        IN  a.median_session_minutes =
                IF n = 0 THEN 0
                ELSE IF n % 2 = 1 THEN 2 * KthDuration(computed.sessions, n \div 2 + 1)
                ELSE KthDuration(computed.sessions, n \div 2)
                        + KthDuration(computed.sessions, n \div 2 + 1)

\* An even number of sessions, given in descending order of duration, whose
\* two middle durations differ.
C26_Witness ==
    /\ computed.called
    /\ Len(computed.sessions) = 2
    /\ computed.sessions[1].duration_seconds > computed.sessions[2].duration_seconds
    /\ \A a \in computed.out : a.median_session_minutes = 60 + 150

-----------------------------------------------------------------------------
(* Properties of the published snapshot *)

\* C30: in every snapshot a reader can observe, active_session is present
\* exactly when status_text is "Tracking" or "Pending resume"; in particular
\* an "Idle" snapshot carries no active session.
C30_ActiveSessionIffTrackingOrPending ==
    (snapshot.active_session # None)
        <=> (snapshot.status_text \in {"Tracking", "Pending resume"})

-----------------------------------------------------------------------------
(* Properties of the active marker *)

\* A poll tick with probe true has been carried out in full.
AfterTrueTick == pc = "sleep" /\ branch \in {"heartbeat", "new"}

\* C27: after every poll tick with probe true the marker on disk equals the
\* in-memory ActiveSession, whose last_seen is the time of that tick and whose
\* start is the time of the first tick of the current stretch of true ticks
\* (the persisted start, when the run resumed a session at startup and no
\* tick was false since); and the marker is on disk before the snapshot of
\* the tick is published.
C27_MarkerFollowsTrueTicks ==
    /\ AfterTrueTick
          => /\ active # None
             /\ activeFile = ValidActive(Unwrap(active))
             /\ Unwrap(active).last_seen = ticks[Len(ticks)].t
             /\ Unwrap(active).start =
                    IF startupProbe = "running" /\ LastFalseTick = 0
                    THEN Unwrap(loaded).start
                    ELSE ticks[LastFalseTick + 1].t
    /\ (pc \in {"pub_heartbeat", "pub_new"})
          => activeFile = ValidActive(IF pc = "pub_new" THEN session ELSE Unwrap(active))

-----------------------------------------------------------------------------
(* Properties of a restart while the game runs *)

\* C28: when a run is stopped while Tracking and the next run starts with the
\* probe still reporting running, the interval goes on: the stop leaves the
\* session history as it was, the restart appends nothing before a poll tick
\* reports not running, and at that tick one Session is handed to
\* finalize_session, starting at the first true tick of the interval (the
\* original run's), so that at most one Session is appended and it has that
\* start.
C28_IntervalContinuesAcrossRestart ==
    /\ StoppedWhileTracking => sessionsFile = histAtStop
    /\ (origin # None /\ startupProbe = "running")
          => /\ NoFalseTickYet => appended = <<>>
             /\ (FirstFalseTick /\ pc \in {"finalize", "fin_clear"})
                   => session.start = Unwrap(origin)
             /\ FirstFalseTick
                   => /\ Len(appended) <= 1
                      /\ \A k \in DOMAIN appended : appended[k].start = Unwrap(origin)

-----------------------------------------------------------------------------
(* Properties of the snapshot mutex *)

WorkerWaits == worker.at = "lock" /\ holder # "none"
ReaderWaits ==
    \/ reader.pc = "lock" /\ holder # "none"
    \/ reader.pc = "join" /\ worker.at # "exited"

\* C29: the worker holds the snapshot lock only while it copies the new
\* values, so never in a probe, a SessionStore call or the poll sleep, and the
\* reader holds it only to clone; a worker that waits for the lock waits for
\* a reader that is in its clone and nothing else, the holder of the lock can
\* always take the step that releases it, and worker and reader never wait
\* for each other.
C29_LockHeldOnlyToCopyOrClone ==
    /\ holder = "worker" => worker.at = "update"
    /\ holder = "reader" => reader.pc = "clone"
    /\ worker.at \in Outside \cup {"exited"} => holder # "worker"
    /\ WorkerWaits => (holder = "reader" /\ reader.pc = "clone")
    /\ holder = "worker" => ENABLED worker_update
    /\ holder = "reader" => ENABLED reader_clone
    /\ ~(WorkerWaits /\ ReaderWaits)

\* The worker waits for the lock while the reader clones, after the reader
\* has already seen an earlier publish.
C29_Witness ==
    /\ WorkerWaits
    /\ reader.pc = "clone"
    /\ reader.seen > 0
    /\ worker.published > reader.seen

-----------------------------------------------------------------------------
(* Properties of the readers of the stored lists *)

\* The last read met a file that is there and does not parse.
Unparsable == lastRead.kind = "corrupt"

SessionsMessage == Some("Failed to load sessions")
EntriesMessage == Some("Failed to refresh leaderboard entries")

\* C22, as stated: when the session history or the leaderboard store cannot
\* be parsed, the consumer of the read is left with an empty list and has the
\* error (the dashboard in its status line, the service on stderr), and the
\* read does not end the consumer.
C22_UnparsableReadGivesEmptyList ==
    Unparsable =>
        /\ lastRead.consumer = "sessions"
              => (dash.sessions = <<>> /\ dash.status_message = SessionsMessage)
        /\ lastRead.consumer = "leaderboard"
              => (dash.leaderboard_entries = <<>> /\ dash.status_message = EntriesMessage)
        /\ lastRead.consumer = "service"
              => (svc.entries = <<>> /\ svc.logged /\ (lastRead.wrote => svc.state = "up"))

\* C22, amended: an unparsable session history leaves the dashboard with an
\* empty session list, no analytics and the error in its status line; an
\* unparsable store leaves the service with an empty list and the error on
\* stderr, and the service comes up unless writing that list back fails; an
\* unparsable Local leaderboard file leaves the dashboard with the entries it
\* already showed and the error in its status line.
C22_UnparsableReadKeepsOrEmptiesList ==
    Unparsable =>
        /\ lastRead.consumer = "sessions"
              => (dash.sessions = <<>> /\ dash.analytics = None
                  /\ dash.status_message = SessionsMessage)
        /\ lastRead.consumer = "leaderboard"
              => (dash.leaderboard_entries = lastRead.before
                  /\ dash.status_message = EntriesMessage)
        /\ lastRead.consumer = "service"
              => (svc.entries = <<>> /\ svc.logged
                  /\ svc.state = IF lastRead.wrote THEN "up" ELSE "failed")

\* After a fetch that filled the list, a second fetch met an unparsable file.
C22_Witness ==
    /\ Unparsable
    /\ lastRead.consumer = "leaderboard"
    /\ lastRead.before # <<>>
    /\ dash.leaderboard_entries # <<>>

-----------------------------------------------------------------------------
(* Properties of the dashboard beside its monitor *)

\* A leaderboard sync is in flight, or one has ended in an error that the
\* dashboard has not taken yet.
SyncInFlight == leaderboard_inflight /\ threads # {}
SyncFailed == \E m \in mailbox : m.result.error

\* C21: whatever the leaderboard sync is doing (in flight, failed, its
\* endpoint out of reach), a monitor at its probe can take its poll tick and
\* a tick that is over has persisted what it decided (the marker after a true
\* tick, no marker after the false tick that ends an interval, and the
\* Session in sessions.json when the interval was long enough); and the dashboard can always refresh, each refresh leaving the
\* analytics of the history as it is on disk then.
C21_RecordingIndependentOfLeaderboard ==
    /\ [](pc = "probe" => ENABLED poll_tick)
    /\ []((pc = "sleep" /\ branch \in {"heartbeat", "new"})
             => activeFile = ValidActive(Unwrap(active)))
    /\ []((pc = "sleep" /\ branch = "discarded") => activeFile = AbsentActive)
    /\ []((pc = "sleep" /\ branch = "saved")
             => /\ activeFile = AbsentActive
                /\ appended # <<>>
                /\ sessionsFile.kind = "valid"
                /\ \E k \in DOMAIN sessionsFile.data :
                      sessionsFile.data[k] = appended[Len(appended)])
    /\ [](constructed => ENABLED refresh_sessions)
    /\ [][analytics' # analytics
             => \E readErr \in BOOLEAN :
                   analytics' = refreshed_analytics(sessionsFile, readErr)]_vars

\* With a sync in flight and another one failed, a session of half a minute
\* was recorded and the refresh that followed counted it.
C21_Witness ==
    /\ SyncInFlight
    /\ pc = "sleep"
    /\ branch = "saved"
    /\ appended # <<>>
    /\ analytics = Some(PollSeconds)

-----------------------------------------------------------------------------
(* Properties of finalize_session and of restarts *)

\* The marker on disk is the interval being finalized.
HeldByMarker == activeFile = ValidActive(session)

\* sessions.json holds the Session of the interval being finalized.
HeldByHistory ==
    /\ sessionsFile.kind = "valid"
    /\ \E k \in DOMAIN sessionsFile.data :
          sessionsFile.data[k] = Session_new(session.start, session.last_seen)

\* finalize_session is recording: it has been entered with an interval that
\* is long enough and has not returned Ok, or it has returned an error.
FinalizeRecording ==
    /\ ~TooShort(session, min_session_minutes)
    /\ \/ pc \in {"finalize", "fin_clear"}
       \/ pc = "failed" /\ failedAt \in {"startup_finalize", "tick_finalize"}

\* C31: in a finalize that records, the Session is in the history before the
\* marker is cleared (the marker is still there when the append has been
\* done), a failed append leaves the marker, and at every point the interval
\* is held by the marker or by the history.
C31_AppendBeforeClear ==
    /\ FinalizeRecording => HeldByMarker \/ HeldByHistory
    /\ pc = "finalize" /\ ~TooShort(session, min_session_minutes) => HeldByMarker
    /\ pc = "fin_clear" => HeldByMarker /\ HeldByHistory
    /\ FinalizeRecording /\ pc = "failed" /\ ~HeldByHistory => HeldByMarker

\* append_session has failed in a poll tick's finalize, truncating
\* sessions.json, and the marker of the interval is still on disk.
C31_Witness ==
    /\ pc = "failed"
    /\ failedAt = "tick_finalize"
    /\ ~TooShort(session, min_session_minutes)
    /\ sessionsFile = CorruptSessions
    /\ HeldByMarker

\* C32: whatever kills a run and wherever, the history never holds two
\* Sessions with the same start.
C32_NoTwoSessionsWithSameStart ==
    sessionsFile.kind = "valid"
        => \A i, j \in DOMAIN sessionsFile.data :
              sessionsFile.data[i].start = sessionsFile.data[j].start => i = j

-----------------------------------------------------------------------------
(* Properties of the dashboard's monitor worker *)

\* C33: at most one monitor worker is alive at any time, it is the one
\* monitor_handle names, and so no two workers are ever inside a file
\* operation of the store together; a worker is only spawned when none lives.
C33_AtMostOneWorker ==
    /\ Cardinality(alive) <= 1
    /\ Cardinality(inStore) <= 1
    /\ alive \subseteq monitor_handle
    /\ dpc.at = "spawn" => alive = {}

\* The last worker is at work in the store after the first two observed
\* their stop flags and were joined.
C33_Witness ==
    /\ alive = {MaxStarts}
    /\ inStore = alive
    /\ observed = {1, 2}

-----------------------------------------------------------------------------
(* Properties of the dashboard's sync jobs *)

\* C34: every SubmitAndFetch job is started with the total of the history
\* as the dashboard last loaded it successfully, also when a later load has
\* failed.
C34_SubmitsLastLoadedTotal ==
    [][\A t \in threads' \ threads :
          (t.job.kind = "SubmitAndFetch" /\ loaded_total' # None)
              => t.job.total_minutes = Unwrap(loaded_total')]_vars

\* The receiver kept has something to give: a result, or the news that the
\* sender is gone.
ReceiverReady == try_recv(leaderboard_rx, mailbox, threads) \in {"ok", "disconnected"}

\* C35: leaderboard_inflight is true exactly while a receiver is kept; the
\* dashboard can always poll; a poll that finds a result or a disconnected
\* channel clears leaderboard_inflight and drops the receiver; and every
\* in-flight state is cleared in the end.
C35_InflightIsCleared ==
    /\ [](leaderboard_inflight <=> leaderboard_rx # None)
    /\ [](constructed => ENABLED poll_leaderboard_updates)
    /\ [][(ReceiverReady /\ poll_leaderboard_updates)
             => (~leaderboard_inflight' /\ leaderboard_rx' = None)]_vars
    /\ (leaderboard_inflight ~> ~leaderboard_inflight)

\* The only job started has ended and a poll has cleared the in-flight
\* state (the settings were never changed: the first client is still there).
C35_Witness ==
    /\ nextJob = 2
    /\ threads = {}
    /\ ~leaderboard_inflight
    /\ leaderboard_rx = None
    /\ leaderboard_client = Some(1)
    /\ nextClient = 2

\* C36: what the dashboard can still receive comes from a job started with
\* the client it has now, the entries it shows were fetched with that client,
\* and whenever the entries or the last-success time are set, they are set
\* from a job of that client: nothing of a job started before a settings
\* change is applied after it.
C36_OldJobResultsNeverApplied ==
    /\ [](\A m \in mailbox :
             m.chan \in leaderboard_rx /\ Some(m.result.client) = leaderboard_client)
    /\ [](leaderboard_entries # None => leaderboard_entries = leaderboard_client)
    /\ [][leaderboard_entries' \notin {leaderboard_entries, None}
             => leaderboard_entries' = leaderboard_client']_vars
    /\ [][last_leaderboard_success' # last_leaderboard_success
             => last_leaderboard_success' = leaderboard_client']_vars

\* The settings were changed while a job of the first client was running;
\* that job is still running, and a job of the second client has been applied.
C36_Witness ==
    /\ leaderboard_client = Some(2)
    /\ leaderboard_entries = Some(2)
    /\ last_leaderboard_success = Some(2)
    /\ \E t \in threads : t.client = 1

-----------------------------------------------------------------------------
(* Properties of the leaderboard service's failures *)

\* C37: a submit that is answered with a server error leaves the in-memory
\* list as it was before the request.  Stated of the first request a service
\* with an empty list is sent: once it has been answered with a server error
\* the list is still empty.
C37_FailedSubmitLeavesListAsBefore ==
    (mode = "service" /\ nsub = 1 /\ AllIdle /\ response.status = INTERNAL_SERVER_ERROR)
        => svcEntries = <<>>

-----------------------------------------------------------------------------
(* Properties of LeaderboardClient::auto *)

\* The override, without the white space around it.
TrimmedOverride == str_trim(Unwrap(cfg.override))

\* The override is one of the words, in any ASCII case.
OverrideIs(word) == cfg.override # None /\ eq_ignore_ascii_case(TrimmedOverride, word)

\* The default endpoint as resolved from the environment, the build and the
\* hardcoded fallback.
ResolvedDefault == Unwrap(global_remote_endpoint(cfg.env, cfg.baked))

\* The client the override asks for.
SelectedClient ==
    IF OverrideIs(LocalWord)
    THEN [kind |-> "local", endpoint |-> <<>>, secondary |-> None]
    ELSE IF cfg.override = None \/ TrimmedOverride = <<>>
            \/ OverrideIs(DefaultWord) \/ OverrideIs(BuiltinWord)
    THEN [kind |-> "remote", endpoint |-> ResolvedDefault, secondary |-> None]
    ELSE [kind |-> "remote", endpoint |-> TrimmedOverride,
          secondary |-> IF eq_ignore_ascii_case(ResolvedDefault, TrimmedOverride)
                        THEN None ELSE Some(ResolvedDefault)]

-----------------------------------------------------------------------------
(* Properties of reset_active *)

\* C39: once reset_active has cleared the marker while the monitor was
\* Tracking, the interval it was tracking is dropped: no marker of that
\* interval comes back (a marker on disk is of an interval started later),
\* and the history gets no Session of it.
C39_ResetDropsTrackedInterval ==
    dropped # None =>
        /\ activeFile.kind = "valid" => Unwrap(activeFile.data).start \notin dropped
        /\ sessionsFile.kind = "valid" =>
              \A k \in DOMAIN sessionsFile.data : sessionsFile.data[k].start \notin dropped

====
